---------------------------- MODULE Spec2Model ----------------------------
(***************************************************************************)
(* Model of the FTL configuration core: the legacy key=value reader        *)
(* (legacy_reader.c), the TOML reader (toml_reader.c) and the TOML value   *)
(* reader/writer (toml_helper.c).                                          *)
(*                                                                         *)
(* Text is a sequence of byte codes (a C string without its terminating    *)
(* NUL), so that isprint(), tolower(), digit values and escapes are        *)
(* computed on the bytes as the C code computes them.                      *)
(***************************************************************************)
EXTENDS Integers, Sequences, FiniteSets, TLC

VARIABLES
    config,      \* the registry: item -> current value (conf_item.v)
    conf_file,   \* pihole-FTL.conf: [exists, lines]
    toml_file,   \* pihole-FTL.toml: [exists, parses, doc]
    last,        \* the operation that returned last and its return value
    pre,         \* the registry as it was when that operation was called
    warnings,    \* log_warn() messages of that operation
    io           \* input and output of the pure TOML value routines

vars == <<config, conf_file, toml_file, last, pre, warnings, io>>

-----------------------------------------------------------------------------
(* Bounds of the model *)

\* number of lines of the legacy file
MaxLines == 2
\* length of the strings handed to printTOMLstring and held by string items
MaxStrLen == 3

-----------------------------------------------------------------------------
(* A local variable of the C code: F at the value of v, where v is          *)
(* evaluated once, as an initialiser is.                                     *)

LetIn(v, F(_)) == CHOOSE y \in {F(x) : x \in {v}} : TRUE

-----------------------------------------------------------------------------
(* C library: <ctype.h>, <string.h> *)

\* a char* that is NULL; no C string holds the byte 0
NULL == <<0>>

isspace(c) == c \in {32, 9, 10, 11, 12, 13}

isprint(c) == c >= 32 /\ c <= 126

isdigit(c) == c >= 48 /\ c <= 57

tolower(c) == IF c >= 65 /\ c <= 90 THEN c + 32 ELSE c

strlen(s) == Len(s)

LowerStr(s) == [i \in 1..Len(s) |-> tolower(s[i])]

\* strcmp(a, b) == 0 ? 0 : nonzero (only equality is ever tested)
strcmp(a, b) == IF a = b THEN 0 ELSE 1

strcasecmp_exact(a, b) == strcmp(a, b)

\* strcasecmp(a, b): 0 when equal ignoring case, nonzero otherwise
strcasecmp(a, b) == IF LowerStr(a) = LowerStr(b) THEN 0 ELSE 1

\* does needle occur in hay at position i
OccursAt(hay, needle, i) ==
    \A k \in 1..Len(needle) : hay[i + k - 1] = needle[k]

\* the first position at or after i where needle occurs in hay, 0 if none
RECURSIVE strstr_from(_, _, _)
strstr_from(hay, needle, i) ==
    IF i + Len(needle) - 1 > Len(hay) THEN 0
    ELSE IF (needle = <<>> \/ hay[i] = needle[1]) /\ OccursAt(hay, needle, i) THEN i
    ELSE strstr_from(hay, needle, i + 1)

\* strstr(hay, needle): position of the first occurrence, 0 for NULL
strstr(hay, needle) == strstr_from(hay, needle, 1)

\* s from position i to its end
Tail_from(s, i) == SubSeq(s, i, Len(s))


-----------------------------------------------------------------------------
(* C library: sscanf() conversions *)

\* value of c as a digit of the given base, -1 when it is none
DigitVal(c, base) ==
    LET v == IF c >= 48 /\ c <= 57 THEN c - 48
             ELSE IF c >= 97 /\ c <= 102 THEN c - 87
             ELSE IF c >= 65 /\ c <= 70 THEN c - 55
             ELSE -1
    IN  IF v >= 0 /\ v < base THEN v ELSE -1

\* index of the first non-whitespace byte of s at or after i (Len(s)+1 if none)
RECURSIVE SkipSpace(_, _)
SkipSpace(s, i) ==
    IF i > Len(s) \/ ~isspace(s[i]) THEN i ELSE SkipSpace(s, i + 1)

\* A magnitude is kept as four 16-bit limbs (least significant first) and a
\* flag telling that it left 64 bits, so that no intermediate value leaves
\* the range of the model checker's integers.
ZeroMag == [l |-> <<0, 0, 0, 0>>, ovf |-> FALSE]

MulAdd(m, base, d) ==
    LET t1 == m.l[1] * base + d
        t2 == m.l[2] * base + (t1 \div 65536)
        t3 == m.l[3] * base + (t2 \div 65536)
        t4 == m.l[4] * base + (t3 \div 65536)
    IN  [l |-> <<t1 % 65536, t2 % 65536, t3 % 65536, t4 % 65536>>,
         ovf |-> m.ovf \/ (t4 \div 65536) > 0]

\* the digits of s from i on, accumulated: [m |-> magnitude, n |-> digits read]
RECURSIVE ScanDigits(_, _, _, _, _)
ScanDigits(s, i, base, m, n) ==
    IF i > Len(s) \/ DigitVal(s[i], base) < 0
    THEN [m |-> m, n |-> n]
    ELSE ScanDigits(s, i + 1, base, MulAdd(m, base, DigitVal(s[i], base)), n + 1)

\* two 16-bit limbs read as a two's complement 32-bit int
Signed32(h, l) == IF h >= 32768 THEN (h - 65536) * 65536 + l ELSE h * 65536 + l

\* does the signed magnitude fit an int
FitsInt(neg, m) ==
    /\ ~m.ovf /\ m.l[4] = 0 /\ m.l[3] = 0
    /\ \/ m.l[2] < 32768
       \/ neg /\ m.l[2] = 32768 /\ m.l[1] = 0

\* does the signed magnitude fit a 64-bit long
FitsLong64(neg, m) ==
    /\ ~m.ovf
    /\ \/ m.l[4] < 32768
       \/ neg /\ m.l[4] = 32768 /\ m.l[3] = 0 /\ m.l[2] = 0 /\ m.l[1] = 0

\* the low 32 bits of the signed magnitude, read as an int
Low32(neg, m) ==
    IF ~neg THEN Signed32(m.l[2], m.l[1])
    ELSE LET n1 == (65536 - m.l[1]) % 65536
             b  == IF m.l[1] = 0 THEN 0 ELSE 1
             n2 == (2 * 65536 - m.l[2] - b) % 65536
         IN  Signed32(n2, n1)

\* What the int holds after a %i conversion whose input does not fit an int.
\* The C standard leaves it undefined; the outcomes of the usual builds are
\*   "LP64":  strtol() into a 64-bit long (saturating there), the low 32 bits
\*            stored through the int pointer;
\*   "ILP32": strtol() into a 32-bit long, saturated to INT_MAX / INT_MIN.
ScanOverflow == {"LP64", "ILP32"}

IntOf(neg, m, ub) ==
    IF FitsInt(neg, m)
    THEN IF neg THEN (0 - m.l[2]) * 65536 - m.l[1] ELSE m.l[2] * 65536 + m.l[1]
    ELSE IF ub = "ILP32"
         THEN IF neg THEN (0 - 32768) * 65536 ELSE 32767 * 65536 + 65535
         ELSE IF FitsLong64(neg, m) THEN Low32(neg, m)
              ELSE IF neg THEN 0 ELSE -1

\* sscanf(buffer, "%i", &value): [ret, val]; ret is -1 (EOF) for input that
\* ends before any conversion, 0 for a matching failure, 1 for a conversion;
\* val is the int afterwards (old when nothing was stored).
sscanf_i(buffer, old, ub) ==
    LetIn(SkipSpace(buffer, 1), LAMBDA i0 :
    IF i0 > Len(buffer) THEN [ret |-> -1, val |-> old]
    ELSE LetIn(IF buffer[i0] \in {43, 45} THEN i0 + 1 ELSE i0, LAMBDA i1 :
         LetIn(/\ i1 + 1 <= Len(buffer) /\ buffer[i1] = 48
               /\ buffer[i1 + 1] \in {120, 88}, LAMBDA hex :
         LetIn(~hex /\ i1 <= Len(buffer) /\ buffer[i1] = 48, LAMBDA oct :
         LetIn(ScanDigits(buffer, IF hex THEN i1 + 2 ELSE i1,
                          IF hex THEN 16 ELSE IF oct THEN 8 ELSE 10, ZeroMag, 0),
               LAMBDA r :
         IF r.n = 0 THEN [ret |-> 0, val |-> old]
         ELSE [ret |-> 1, val |-> IntOf(buffer[i0] = 45, r.m, ub)])))))

\* the two low limbs of the two's complement of a magnitude
Neg32(m) ==
    <<(65536 - m.l[1]) % 65536,
      (2 * 65536 - m.l[2] - (IF m.l[1] = 0 THEN 0 ELSE 1)) % 65536>>

\* What the unsigned int holds after a %u conversion: strtoul() negates a
\* signed input in unsigned arithmetic; an input that does not fit is cut to
\* its low 32 bits ("LP64", saturating at 64 bits) or saturates ("ILP32").
UIntOf(neg, m, ub) ==
    IF m.ovf \/ (ub = "ILP32" /\ (m.l[3] # 0 \/ m.l[4] # 0))
    THEN <<65535, 65535>>
    ELSE IF neg THEN Neg32(m) ELSE <<m.l[1], m.l[2]>>

\* sscanf(buffer, "%u", &uval): [ret, val]; val is the unsigned int
\* afterwards, as its two 16-bit limbs
sscanf_u(buffer, old, ub) ==
    LetIn(SkipSpace(buffer, 1), LAMBDA i0 :
    IF i0 > Len(buffer) THEN [ret |-> -1, val |-> old]
    ELSE LetIn(ScanDigits(buffer, IF buffer[i0] \in {43, 45} THEN i0 + 1 ELSE i0,
                          10, ZeroMag, 0),
               LAMBDA r :
         IF r.n = 0 THEN [ret |-> 0, val |-> old]
         ELSE [ret |-> 1, val |-> UIntOf(buffer[i0] = 45, r.m, ub)]))

\* end of the run of non-whitespace bytes of s that starts at i
RECURSIVE WordEnd(_, _)
WordEnd(s, i) ==
    IF i > Len(s) \/ isspace(s[i]) THEN i - 1 ELSE WordEnd(s, i + 1)

\* sscanf(buffer, "%127ms", &ptr): [ret, val]; val is the string ptr points
\* to afterwards (old when nothing was stored)
sscanf_ms(buffer, old) ==
    LetIn(SkipSpace(buffer, 1), LAMBDA i0 :
    IF i0 > Len(buffer) THEN [ret |-> -1, val |-> old]
    ELSE LetIn(WordEnd(buffer, i0), LAMBDA e :
         [ret |-> 1,
          val |-> SubSeq(buffer, i0, IF e - i0 + 1 > 127 THEN i0 + 126 ELSE e)]))

-----------------------------------------------------------------------------
(* C library: inet_pton() *)

\* the pieces of s between the separator bytes sep
RECURSIVE Split(_, _, _, _)
Split(s, sep, i, cur) ==
    IF i > Len(s) THEN <<cur>>
    ELSE IF s[i] = sep THEN <<cur>> \o Split(s, sep, i + 1, <<>>)
    ELSE Split(s, sep, i + 1, Append(cur, s[i]))

\* a decimal octet: 1 to 3 digits, no leading zero, at most 255; -1 otherwise
Octet(p) ==
    IF Len(p) < 1 \/ Len(p) > 3 \/ \E k \in 1..Len(p) : ~isdigit(p[k]) THEN -1
    ELSE IF Len(p) > 1 /\ p[1] = 48 THEN -1
    ELSE LetIn(ScanDigits(p, 1, 10, ZeroMag, 0).m.l[1],
               LAMBDA v : IF v > 255 THEN -1 ELSE v)

\* inet_pton(AF_INET, src, dst): [ok, addr], addr the four bytes
inet_pton4(src) ==
    LetIn(Split(src, 46, 1, <<>>), LAMBDA parts :
    IF Len(parts) # 4 THEN [ok |-> FALSE, addr |-> <<0, 0, 0, 0>>]
    ELSE LetIn([k \in 1..4 |-> Octet(parts[k])], LAMBDA o :
         IF \A k \in 1..4 : o[k] >= 0
         THEN [ok |-> TRUE, addr |-> o]
         ELSE [ok |-> FALSE, addr |-> <<0, 0, 0, 0>>]))

\* the run of digits, at most three, that p starts with
DigitPrefix(p) ==
    LetIn({n \in 0..3 : n <= Len(p) /\ \A k \in 1..n : isdigit(p[k])}, LAMBDA ns :
          SubSeq(p, 1, CHOOSE n \in ns : \A m \in ns : m <= n))

\* dst after a parser that stores each octet as soon as it has read it gave
\* up on the dotted quad whose pieces are parts, from piece k on
RECURSIVE StoredOctets(_, _, _)
StoredOctets(parts, k, dst) ==
    IF k > 4 \/ k > Len(parts) THEN dst
    ELSE LetIn(DigitPrefix(parts[k]), LAMBDA d :
         IF Octet(d) < 0 THEN dst
         ELSE IF Len(d) # Len(parts[k]) THEN [dst EXCEPT ![k] = Octet(d)]
         ELSE StoredOctets(parts, k + 1, [dst EXCEPT ![k] = Octet(d)]))

\* What inet_pton() leaves in dst when it returns 0 is not specified: a C
\* library that assembles the address in a temporary leaves dst untouched,
\* one that parses in place has stored the octets it read before it failed.
PtonFailure == {"untouched", "stored"}

\* dst after inet_pton(AF_INET, src, dst)
inet_pton4_dst(src, dst, libc) ==
    LetIn(inet_pton4(src), LAMBDA r :
    IF r.ok THEN r.addr
    ELSE IF libc = "untouched" THEN dst
    ELSE StoredOctets(Split(src, 46, 1, <<>>), 1, dst))

\* a group of 1 to 4 hex digits: its value, -1 otherwise
HexGroup(p) ==
    IF Len(p) < 1 \/ Len(p) > 4 \/ \E k \in 1..Len(p) : DigitVal(p[k], 16) < 0
    THEN -1
    ELSE ScanDigits(p, 1, 16, ZeroMag, 0).m.l[1]

\* the 16-bit words of a list of colon-separated groups; the last group may
\* be a dotted quad (two words). <<-1>> when a group is malformed.
GroupWords(gs, quad) ==
    LetIn(IF quad /\ gs # <<>> THEN inet_pton4(gs[Len(gs)])
          ELSE [ok |-> FALSE, addr |-> <<0, 0, 0, 0>>], LAMBDA last4 :
    LetIn(IF last4.ok THEN SubSeq(gs, 1, Len(gs) - 1) ELSE gs, LAMBDA head :
    LetIn([k \in 1..Len(head) |-> HexGroup(head[k])], LAMBDA w :
    IF \E k \in 1..Len(w) : w[k] < 0 THEN <<-1>>
    ELSE w \o (IF last4.ok
               THEN <<last4.addr[1] * 256 + last4.addr[2],
                      last4.addr[3] * 256 + last4.addr[4]>>
               ELSE <<>>))))

Zeros(n) == [k \in 1..n |-> 0]

in6addr_any == Zeros(8)

\* inet_pton(AF_INET6, src, dst): [ok, addr], addr the eight 16-bit words
inet_pton6(src) ==
    LetIn(strstr(src, <<58, 58>>), LAMBDA dc :
    LetIn(IF dc = 0 THEN src ELSE SubSeq(src, 1, dc - 1), LAMBDA left :
    LetIn(IF dc = 0 THEN <<>> ELSE Tail_from(src, dc + 2), LAMBDA rght :
    LetIn(IF left = <<>> THEN <<>>
          ELSE GroupWords(Split(left, 58, 1, <<>>), dc = 0), LAMBDA lw :
    LetIn(IF rght = <<>> THEN <<>>
          ELSE GroupWords(Split(rght, 58, 1, <<>>), TRUE), LAMBDA rw :
    LET bad == [ok |-> FALSE, addr |-> in6addr_any]
    IN  IF lw = <<-1>> \/ rw = <<-1>> THEN bad
        ELSE IF dc = 0
             THEN IF Len(lw) = 8 THEN [ok |-> TRUE, addr |-> lw] ELSE bad
        ELSE IF strstr(rght, <<58, 58>>) # 0 \/ (rght # <<>> /\ rght[1] = 58) THEN bad
        ELSE IF Len(lw) + Len(rw) > 7 THEN bad
        ELSE [ok |-> TRUE,
              addr |-> lw \o Zeros(8 - Len(lw) - Len(rw)) \o rw])))))


-----------------------------------------------------------------------------
(* The registry (struct config) *)

\* enum blocking_mode
MODE_IP == 0
MODE_NX == 1
MODE_NULL == 2
MODE_IP_NODATA_AAAA == 3
MODE_NODATA == 4

\* enum privacy_level
PRIVACY_SHOW_ALL == 0
PRIVACY_MAXIMUM == 3

\* enum refresh_hostnames
REFRESH_ALL == 0
REFRESH_IPV4_ONLY == 1
REFRESH_UNKNOWN == 2
REFRESH_NONE == 3

\* an unsigned int (below 2^31) as an item holds it: a magnitude of four
\* 16-bit limbs
UInt(v) == [neg |-> FALSE, l |-> <<v % 65536, v \div 65536, 0, 0>>]

INT_MAX == 32767 * 65536 + 65535

\* INT_MAX / 24 / 60 / 60
maxdbdays_max == ((INT_MAX \div 24) \div 60) \div 60

INADDR_ANY == <<0, 0, 0, 0>>

\* "/etc/pihole/pihole-FTL.db"
DefaultDBFile == <<47, 101, 116, 99, 47, 112, 105, 104, 111, 108, 101, 47, 112, 105, 104, 111, 108, 101, 45, 70, 84, 76, 46, 100, 98>>

\* the items of the registry, in registry order, by their path in struct config
Items == <<"debug.config",
           "misc.privacylevel",
           "dns.blockingmode",
           "database.maxDBdays",
           "files.database",
           "dns.reply.host.overwrite_v4",
           "dns.reply.host.v4",
           "dns.reply.host.overwrite_v6",
           "dns.reply.host.v6",
           "dns.reply.blocking.overwrite_v4",
           "dns.reply.blocking.v4",
           "dns.reply.blocking.overwrite_v6",
           "dns.reply.blocking.v6",
           "database.network.expire",
           "resolver.refreshNames",
           "dns.blockTTL",
           "misc.check.shmem",
           "misc.check.disk">>

ItemSet == {Items[i] : i \in 1..Len(Items)}

\* conf_item.d: the defaults initConfig() sets
DefaultOf(k) ==
    CASE k = "debug.config" -> FALSE
      [] k = "misc.privacylevel" -> PRIVACY_SHOW_ALL
      [] k = "dns.blockingmode" -> MODE_NULL
      [] k = "database.maxDBdays" -> 365
      [] k = "files.database" -> DefaultDBFile
      [] k \in {"dns.reply.host.overwrite_v4", "dns.reply.host.overwrite_v6",
                "dns.reply.blocking.overwrite_v4",
                "dns.reply.blocking.overwrite_v6"} -> FALSE
      [] k \in {"dns.reply.host.v4", "dns.reply.blocking.v4"} -> INADDR_ANY
      [] k \in {"dns.reply.host.v6", "dns.reply.blocking.v6"} -> in6addr_any
      [] k = "database.network.expire" -> UInt(365)
      [] k = "resolver.refreshNames" -> REFRESH_IPV4_ONLY
      [] k = "dns.blockTTL" -> UInt(2)
      [] k \in {"misc.check.shmem", "misc.check.disk"} -> UInt(90)

\* initConfig(): every item's current value becomes its default
initConfig == [k \in ItemSet |-> DefaultOf(k)]

-----------------------------------------------------------------------------
(* legacy_reader.c: the line scanner *)

\* "MAXDBDAYS"
K_MAXDBDAYS == <<77, 65, 88, 68, 66, 68, 65, 89, 83>>

\* "DBFILE"
K_DBFILE == <<68, 66, 70, 73, 76, 69>>

\* "PRIVACYLEVEL"
K_PRIVACYLEVEL == <<80, 82, 73, 86, 65, 67, 89, 76, 69, 86, 69, 76>>

\* "BLOCKINGMODE"
K_BLOCKINGMODE == <<66, 76, 79, 67, 75, 73, 78, 71, 77, 79, 68, 69>>

\* "LOCAL_IPV4"
K_LOCAL_IPV4 == <<76, 79, 67, 65, 76, 95, 73, 80, 86, 52>>

\* "LOCAL_IPV6"
K_LOCAL_IPV6 == <<76, 79, 67, 65, 76, 95, 73, 80, 86, 54>>

\* "BLOCK_IPV4"
K_BLOCK_IPV4 == <<66, 76, 79, 67, 75, 95, 73, 80, 86, 52>>

\* "BLOCK_IPV6"
K_BLOCK_IPV6 == <<66, 76, 79, 67, 75, 95, 73, 80, 86, 54>>

\* "REPLY_ADDR4"
K_REPLY_ADDR4 == <<82, 69, 80, 76, 89, 95, 65, 68, 68, 82, 52>>

\* "REPLY_ADDR6"
K_REPLY_ADDR6 == <<82, 69, 80, 76, 89, 95, 65, 68, 68, 82, 54>>

\* "MAXNETAGE"
K_MAXNETAGE == <<77, 65, 88, 78, 69, 84, 65, 71, 69>>

\* "REFRESH_HOSTNAMES"
K_REFRESH_HOSTNAMES == <<82, 69, 70, 82, 69, 83, 72, 95, 72, 79, 83, 84, 78, 65, 77, 69, 83>>

\* "BLOCK_TTL"
K_BLOCK_TTL == <<66, 76, 79, 67, 75, 95, 84, 84, 76>>

\* "CHECK_SHMEM"
K_CHECK_SHMEM == <<67, 72, 69, 67, 75, 95, 83, 72, 77, 69, 77>>

\* "CHECK_DISK"
K_CHECK_DISK == <<67, 72, 69, 67, 75, 95, 68, 73, 83, 75>>

\* a FILE* that is NULL
FNULL == <<NULL>>

\* openFTLconf(): the open legacy file (its lines), FNULL when neither
\* pihole-FTL.conf nor /etc/pihole/pihole-FTL.conf can be opened
openFTLconf == IF conf_file.exists THEN conf_file.lines ELSE FNULL

\* find_equals(s): position of the first '=' of s (Len(s)+1, the
\* terminating NUL, when there is none)
find_equals(s) ==
    LET hits == {i \in 1..Len(s) : s[i] = 61}
    IN  IF hits = {} THEN Len(s) + 1 ELSE CHOOSE i \in hits : \A j \in hits : i <= j

\* trim_whitespace(s): s without its leading and trailing whitespace
RECURSIVE TrimRight(_)
TrimRight(s) ==
    IF s # <<>> /\ isspace(s[Len(s)]) THEN TrimRight(SubSeq(s, 1, Len(s) - 1)) ELSE s

trim_whitespace(s) == TrimRight(Tail_from(s, SkipSpace(s, 1)))

\* getline(): line i of the file, with the newline that ends it
getline(fp, i) == Append(fp[i], 10)

\* is the line a comment line
IsComment(line) == line[1] = 35 \/ line[1] = 59

\* does the line's scan stop here: not a comment line, and keystr is found
LineMatch(line, keystr) == ~IsComment(line) /\ strstr(line, keystr) # 0

\* the while(getline()) loop of parseFTLconf from line i on: the trimmed text
\* after the first '=' of the first line the scan stops at, NULL if none
RECURSIVE ScanLines(_, _, _)
ScanLines(fp, keystr, i) ==
    IF i > Len(fp) THEN NULL
    ELSE LET line == getline(fp, i)
         IN  IF LineMatch(line, keystr)
             THEN trim_whitespace(Tail_from(line, find_equals(line) + 1))
             ELSE ScanLines(fp, keystr, i + 1)

\* parseFTLconf(fp, key)
parseFTLconf(fp, key) ==
    IF fp = FNULL THEN NULL ELSE ScanLines(fp, Append(key, 61), 1)

-----------------------------------------------------------------------------
(* legacy_reader.c: the keys.  An operation threads st = [cfg, warn]: the     *)
(* registry and the log_warn() messages written so far.                      *)

Set(st, k, v) == [st EXCEPT !.cfg[k] = v]

Warn(st, msg) == [st EXCEPT !.warn = @ \cup {msg}]

\* MAXDBDAYS
legacy_MAXDBDAYS(st, fp, ub) ==
    LetIn(parseFTLconf(fp, K_MAXDBDAYS), LAMBDA buffer :
    IF buffer = NULL THEN st
    ELSE LetIn(sscanf_i(buffer, 0, ub), LAMBDA r :
         LetIn(IF r.val > maxdbdays_max THEN maxdbdays_max ELSE r.val, LAMBDA value :
         IF r.ret # 0 /\ (value = -1 \/ value >= 0)
         THEN Set(st, "database.maxDBdays", value)
         ELSE st)))

\* DBFILE
legacy_DBFILE(st, fp) ==
    LetIn(parseFTLconf(fp, K_DBFILE), LAMBDA buffer :
    LetIn(IF buffer = NULL THEN [ret |-> 0, val |-> st.cfg["files.database"]]
          ELSE sscanf_ms(buffer, st.cfg["files.database"]), LAMBDA r :
    LetIn(IF ~(buffer # NULL /\ r.ret # 0)
          THEN Set(st, "files.database", DefaultOf("files.database"))
          ELSE Set(st, "files.database", r.val), LAMBDA s1 :
    IF s1.cfg["files.database"] = NULL \/ strlen(s1.cfg["files.database"]) = 0
    THEN Set(Set(s1, "files.database", DefaultOf("files.database")),
             "database.maxDBdays", 0)
    ELSE s1)))

\* may the parsed level replace the current one
PrivacyAccept_nocompare(value, cur) ==
    value >= PRIVACY_SHOW_ALL /\ value <= PRIVACY_MAXIMUM

PrivacyAccept(value, cur) ==
    value >= PRIVACY_SHOW_ALL /\ value <= PRIVACY_MAXIMUM /\ value > cur

\* getPrivacyLevelLegacy(fp)
getPrivacyLevelLegacy(st, fp, ub) ==
    LetIn(IF fp = FNULL THEN openFTLconf ELSE fp, LAMBDA fp2 :
    IF fp2 = FNULL THEN st
    ELSE LetIn(parseFTLconf(fp2, K_PRIVACYLEVEL), LAMBDA buffer :
         IF buffer = NULL THEN st
         ELSE LetIn(sscanf_i(buffer, 0, ub), LAMBDA r :
              IF r.ret = 1 /\ PrivacyAccept(r.val, st.cfg["misc.privacylevel"])
              THEN Set(st, "misc.privacylevel", r.val)
              ELSE st)))

\* "NXDOMAIN"
S_NXDOMAIN == <<78, 88, 68, 79, 77, 65, 73, 78>>

\* "NULL"
S_NULL == <<78, 85, 76, 76>>

\* "IP-NODATA-AAAA"
S_IP_NODATA_AAAA == <<73, 80, 45, 78, 79, 68, 65, 84, 65, 45, 65, 65, 65, 65>>

\* "IP"
S_IP == <<73, 80>>

\* "NODATA"
S_NODATA == <<78, 79, 68, 65, 84, 65>>

\* getBlockingModeLegacy(fp) after its first statement
getBlockingModeLegacy_from(s0, fp) ==
    LetIn(IF fp = FNULL THEN openFTLconf ELSE fp, LAMBDA fp2 :
    IF fp2 = FNULL THEN s0
    ELSE LetIn(parseFTLconf(fp2, K_BLOCKINGMODE), LAMBDA buffer :
         IF buffer = NULL THEN s0
         ELSE IF strcasecmp(buffer, S_NXDOMAIN) = 0
              THEN Set(s0, "dns.blockingmode", MODE_NX)
         ELSE IF strcasecmp(buffer, S_NULL) = 0
              THEN Set(s0, "dns.blockingmode", MODE_NULL)
         ELSE IF strcasecmp(buffer, S_IP_NODATA_AAAA) = 0
              THEN Set(s0, "dns.blockingmode", MODE_IP_NODATA_AAAA)
         ELSE IF strcasecmp(buffer, S_IP) = 0
              THEN Set(s0, "dns.blockingmode", MODE_IP)
         ELSE IF strcasecmp(buffer, S_NODATA) = 0
              THEN Set(s0, "dns.blockingmode", MODE_NODATA)
         ELSE Warn(s0, "Unknown blocking mode, using NULL as fallback")))

\* a getBlockingModeLegacy(fp) without its first statement
getBlockingModeLegacy_noreset(st, fp) == getBlockingModeLegacy_from(st, fp)

\* getBlockingModeLegacy(fp): the value is (re-)set to the default, then the
\* key is read
getBlockingModeLegacy(st, fp) ==
    getBlockingModeLegacy_from(
        Set(st, "dns.blockingmode", DefaultOf("dns.blockingmode")), fp)

\* LOCAL_IPV4, BLOCK_IPV4: the flag and the address are cleared, then set
\* from the key
legacy_ADDR4(st, fp, key, flag, item, libc) ==
    LetIn(Set(Set(st, flag, FALSE), item, INADDR_ANY), LAMBDA s0 :
    LetIn(parseFTLconf(fp, key), LAMBDA buffer :
    IF buffer = NULL THEN s0
    ELSE LetIn(Set(s0, item, inet_pton4_dst(buffer, s0.cfg[item], libc)), LAMBDA s1 :
         IF inet_pton4(buffer).ok THEN Set(s1, flag, TRUE) ELSE s1)))

\* LOCAL_IPV6, BLOCK_IPV6
legacy_ADDR6(st, fp, key, flag, item) ==
    LetIn(Set(Set(st, flag, FALSE), item, in6addr_any), LAMBDA s0 :
    LetIn(parseFTLconf(fp, key), LAMBDA buffer :
    IF buffer = NULL THEN s0
    ELSE LetIn(inet_pton6(buffer), LAMBDA r :
         IF r.ok THEN Set(Set(s0, item, r.addr), flag, TRUE) ELSE s0)))

\* a REPLY_ADDR4 that never gives way to the newer keys
overwrite_v4_unchecked(st) == FALSE

\* has LOCAL_IPV4 or BLOCK_IPV4 been specified
overwrite_v4(st) ==
    st.cfg["dns.reply.host.overwrite_v4"] \/ st.cfg["dns.reply.blocking.overwrite_v4"]

\* has LOCAL_IPV6 or BLOCK_IPV6 been specified
overwrite_v6(st) ==
    st.cfg["dns.reply.host.overwrite_v6"] \/ st.cfg["dns.reply.blocking.overwrite_v6"]

\* REPLY_ADDR4 (deprecated setting)
legacy_REPLY_ADDR4(st, fp) ==
    LetIn(parseFTLconf(fp, K_REPLY_ADDR4), LAMBDA buffer :
    IF buffer = NULL THEN st
    ELSE LetIn(inet_pton4(buffer), LAMBDA reply_addr4 :
         IF ~reply_addr4.ok THEN st
         ELSE IF overwrite_v4(st)
         THEN Warn(st, "Ignoring REPLY_ADDR4 as LOCAL_IPV4 or BLOCK_IPV4 has been specified.")
         ELSE Set(Set(Set(Set(st,
                "dns.reply.host.overwrite_v4", TRUE),
                "dns.reply.host.v4", reply_addr4.addr),
                "dns.reply.blocking.overwrite_v4", TRUE),
                "dns.reply.blocking.v4", reply_addr4.addr)))

\* What the bytes of an uninitialised automatic variable hold: any value
\* (each 16-bit word of it is drawn from this set).
StackJunk == {0, 65535}

\* the struct in6_addr reply_addr6 after inet_pton(AF_INET, buffer, &reply_addr6)
\* succeeded: its first four bytes are the IPv4 address, the other twelve
\* were never written
reply_addr6_of(addr4, junk) ==
    <<addr4[1] * 256 + addr4[2], addr4[3] * 256 + addr4[4],
      junk, junk, junk, junk, junk, junk>>

\* inet_pton(AF_INET, buffer, &reply_addr6)
reply_addr6_pton(buffer, junk) ==
    LetIn(inet_pton4(buffer), LAMBDA r :
          [ok |-> r.ok, addr |-> reply_addr6_of(r.addr, junk)])

\* REPLY_ADDR6 (deprecated setting)
legacy_REPLY_ADDR6(st, fp, junk) ==
    LetIn(parseFTLconf(fp, K_REPLY_ADDR6), LAMBDA buffer :
    IF buffer = NULL THEN st
    ELSE LetIn(reply_addr6_pton(buffer, junk), LAMBDA reply_addr6 :
         IF ~reply_addr6.ok THEN st
         ELSE IF overwrite_v6(st)
         THEN Warn(st, "Ignoring REPLY_ADDR6 as LOCAL_IPV6 or BLOCK_IPV6 has been specified.")
         ELSE Set(Set(Set(Set(st,
                "dns.reply.host.overwrite_v6", TRUE),
                "dns.reply.host.v6", reply_addr6.addr),
                "dns.reply.blocking.overwrite_v6", TRUE),
                "dns.reply.blocking.v6", reply_addr6.addr)))

\* MAXNETAGE; the int ivalue lives on to the later keys
legacy_MAXNETAGE(st, fp, ub) ==
    LetIn(parseFTLconf(fp, K_MAXNETAGE), LAMBDA buffer :
    LetIn(IF buffer = NULL THEN [ret |-> 0, val |-> 0] ELSE sscanf_i(buffer, 0, ub),
          LAMBDA r :
        [cfg |-> IF buffer # NULL /\ r.ret # 0 /\ r.val > 0 /\ r.val <= 8760
                 THEN [st.cfg EXCEPT !["database.network.expire"] = UInt(r.val)]
                 ELSE st.cfg,
         warn |-> st.warn,
         ivalue |-> r.val]))

\* "ALL"
S_ALL == <<65, 76, 76>>

\* "NONE"
S_NONE == <<78, 79, 78, 69>>

\* "UNKNOWN"
S_UNKNOWN == <<85, 78, 75, 78, 79, 87, 78>>

\* REFRESH_HOSTNAMES
legacy_REFRESH_HOSTNAMES(st, fp) ==
    LetIn(parseFTLconf(fp, K_REFRESH_HOSTNAMES), LAMBDA buffer :
    IF buffer # NULL /\ strcasecmp(buffer, S_ALL) = 0
    THEN Set(st, "resolver.refreshNames", REFRESH_ALL)
    ELSE IF buffer # NULL /\ strcasecmp(buffer, S_NONE) = 0
    THEN Set(st, "resolver.refreshNames", REFRESH_NONE)
    ELSE IF buffer # NULL /\ strcasecmp(buffer, S_UNKNOWN) = 0
    THEN Set(st, "resolver.refreshNames", REFRESH_UNKNOWN)
    ELSE Set(st, "resolver.refreshNames", REFRESH_IPV4_ONLY))

\* BLOCK_TTL: set to 2 seconds, then to the key's value
legacy_BLOCK_TTL(st, fp, ub) ==
    LetIn(Set(st, "dns.blockTTL", UInt(2)), LAMBDA s0 :
    LetIn(parseFTLconf(fp, K_BLOCK_TTL), LAMBDA buffer :
    IF buffer = NULL THEN s0
    ELSE LetIn(sscanf_u(buffer, <<0, 0>>, ub), LAMBDA r :
         IF r.ret # 0
         THEN Set(s0, "dns.blockTTL", [neg |-> FALSE, l |-> r.val \o <<0, 0>>])
         ELSE s0)))

\* CHECK_SHMEM: set to 90, then to the key's value; scanned into the ivalue
\* of MAXNETAGE
legacy_CHECK_SHMEM(st, fp, ub) ==
    LetIn(Set(st, "misc.check.shmem", UInt(90)), LAMBDA s0 :
    LetIn(parseFTLconf(fp, K_CHECK_SHMEM), LAMBDA buffer :
    IF buffer = NULL THEN s0
    ELSE LetIn(sscanf_i(buffer, s0.ivalue, ub), LAMBDA r :
         IF r.ret # 0 /\ r.val >= 0 /\ r.val <= 100
         THEN [Set(s0, "misc.check.shmem", UInt(r.val)) EXCEPT !.ivalue = r.val]
         ELSE [s0 EXCEPT !.ivalue = r.val])))

\* Which byte of an unsigned int shares its address with the bool of the
\* same union: the least significant one or the most significant one.
ByteOrder == {"little", "big"}

\* conf_item.v.b = value, in an item that is read as v.ui: the value is
\* converted to bool (0 or 1) and stored in the first byte of the union
StoreBool(u, value, order) ==
    IF order = "little"
    THEN [u EXCEPT !.l[1] = (@ \div 256) * 256 + (IF value # 0 THEN 1 ELSE 0)]
    ELSE [u EXCEPT !.l[2] = (IF value # 0 THEN 1 ELSE 0) * 256 + (@ % 256)]

\* CHECK_DISK: as CHECK_SHMEM, but assigned through the bool of the union
legacy_CHECK_DISK(st, fp, ub, order) ==
    LetIn(Set(st, "misc.check.disk", StoreBool(st.cfg["misc.check.disk"], 90, order)),
          LAMBDA s0 :
    LetIn(parseFTLconf(fp, K_CHECK_DISK), LAMBDA buffer :
    IF buffer = NULL THEN s0
    ELSE LetIn(sscanf_i(buffer, s0.ivalue, ub), LAMBDA r :
         IF r.ret # 0 /\ r.val >= 0 /\ r.val <= 100
         THEN Set(s0, "misc.check.disk",
                  StoreBool(s0.cfg["misc.check.disk"], r.val, order))
         ELSE s0)))

-----------------------------------------------------------------------------
(* Numbers wider than the model checker's integers: a sign and a magnitude  *)
(* of four 16-bit limbs.  Zero is never negative.                           *)

Num(neg, l) == [neg |-> neg /\ l # <<0, 0, 0, 0>>, l |-> l]

\* an int as a Num
IntToNum(v) ==
    IF v >= 0 THEN Num(FALSE, <<v % 65536, v \div 65536, 0, 0>>)
    ELSE LET w  == (0 - 1) - v
             l1 == (w % 65536) + 1
         IN  Num(TRUE, <<l1 % 65536, (w \div 65536) + (l1 \div 65536), 0, 0>>)

\* l divided by ten: [q, r]
DivMod10(l) ==
    LET c4 == l[4]
        c3 == (c4 % 10) * 65536 + l[3]
        c2 == (c3 % 10) * 65536 + l[2]
        c1 == (c2 % 10) * 65536 + l[1]
    IN  [q |-> <<c1 \div 10, c2 \div 10, c3 \div 10, c4 \div 10>>, r |-> c1 % 10]

RECURSIVE DecDigits(_)
DecDigits(l) ==
    IF l = <<0, 0, 0, 0>> THEN <<>>
    ELSE DecDigits(DivMod10(l).q) \o <<48 + DivMod10(l).r>>

\* printf("%li") / "%lu" / "%u" / "%i" of a number
FormatNum(n) ==
    (IF n.neg THEN <<45>> ELSE <<>>)
    \o (IF n.l = <<0, 0, 0, 0>> THEN <<48>> ELSE DecDigits(n.l))

-----------------------------------------------------------------------------
(* tomlc99: tables and typed access to their raw values *)

\* a toml_table_t* that is NULL
TNULL == [null |-> TRUE, kv |-> <<>>]

\* toml_table_in(tab, key): the sub-table, TNULL when key holds none
toml_table_in(tab, key) ==
    IF key \in DOMAIN tab.kv /\ tab.kv[key].tab THEN tab.kv[key].t ELSE TNULL

\* toml_raw_in(tab, key): the raw text of the value, NULL when key holds none
toml_raw_in(tab, key) ==
    IF key \in DOMAIN tab.kv /\ ~tab.kv[key].tab THEN tab.kv[key].raw ELSE NULL

\* "true"
S_true == <<116, 114, 117, 101>>

\* "false"
S_false == <<102, 97, 108, 115, 101>>

\* toml_rtob(): [ok, b]
toml_rtob(raw) ==
    IF raw = S_true THEN [ok |-> TRUE, b |-> TRUE]
    ELSE IF raw = S_false THEN [ok |-> TRUE, b |-> FALSE]
    ELSE [ok |-> FALSE, b |-> FALSE]

\* s without its underscores; <<0>> when an underscore is doubled or last
RECURSIVE StripUnderscores(_, _)
StripUnderscores(s, i) ==
    IF i > Len(s) THEN <<>>
    ELSE IF s[i] = 95
         THEN IF i = Len(s) \/ s[i + 1] = 95 THEN <<0>>
              ELSE StripUnderscores(s, i + 1)
         ELSE LET rest == StripUnderscores(s, i + 1)
              IN  IF rest = <<0>> THEN <<0>> ELSE <<s[i]>> \o rest

\* toml_rtoi(): [ok, i], i the int64_t as a Num
toml_rtoi(raw) ==
    LET bad    == [ok |-> FALSE, i |-> Num(FALSE, <<0, 0, 0, 0>>)]
        signed == raw # <<>> /\ raw[1] \in {43, 45}
        neg    == raw # <<>> /\ raw[1] = 45
    IN  IF raw = NULL THEN bad
        ELSE LetIn(IF signed THEN Tail_from(raw, 2) ELSE raw, LAMBDA s :
             LetIn(Len(s) >= 2 /\ s[1] = 48 /\ s[2] \in {120, 111, 98}, LAMBDA pfx :
             IF s # <<>> /\ s[1] = 95 THEN bad
             ELSE IF ~pfx /\ Len(s) >= 2 /\ s[1] = 48 THEN bad
             ELSE LetIn(StripUnderscores(IF pfx THEN Tail_from(s, 3) ELSE s, 1),
                        LAMBDA body :
                  IF body = <<0>> \/ (body = <<>> /\ signed) THEN bad
                  ELSE LetIn(ScanDigits(body, 1,
                                        IF ~pfx THEN 10
                                        ELSE IF s[2] = 120 THEN 16
                                        ELSE IF s[2] = 111 THEN 8 ELSE 2,
                                        ZeroMag, 0), LAMBDA r :
                       IF r.n # Len(body) \/ ~FitsLong64(neg, r.m) THEN bad
                       ELSE [ok |-> TRUE, i |-> Num(neg, r.m.l)]))))

\* the byte an escape letter of a basic string stands for, -1 for none
UnescapeChar(c) ==
    CASE c = 98 -> 8
      [] c = 116 -> 9
      [] c = 110 -> 10
      [] c = 102 -> 12
      [] c = 114 -> 13
      [] c = 34 -> 34
      [] c = 92 -> 92
      [] OTHER -> -1

\* norm_basic_str(): the string a basic string's body stands for; <<0>> when
\* it holds a byte that must be escaped or an escape that does not exist
\* (\u and \U escapes are not modelled: the writer never emits them)
RECURSIVE norm_basic_str(_, _)
norm_basic_str(s, i) ==
    IF i > Len(s) THEN <<>>
    ELSE IF s[i] # 92
         THEN IF s[i] <= 8 \/ (s[i] >= 10 /\ s[i] <= 31) \/ s[i] = 127 THEN <<0>>
              ELSE LET rest == norm_basic_str(s, i + 1)
                   IN  IF rest = <<0>> THEN <<0>> ELSE <<s[i]>> \o rest
         ELSE IF i = Len(s) \/ UnescapeChar(s[i + 1]) < 0 THEN <<0>>
              ELSE LET rest == norm_basic_str(s, i + 2)
                   IN  IF rest = <<0>> THEN <<0>>
                       ELSE <<UnescapeChar(s[i + 1])>> \o rest

\* toml_rtos(): [ok, s] (single-line basic and literal strings)
toml_rtos(raw) ==
    LET bad  == [ok |-> FALSE, s |-> <<>>]
        n    == Len(raw)
        body == SubSeq(raw, 2, n - 1)
    IN  IF raw = NULL \/ n < 2 THEN bad
        ELSE IF raw[1] \notin {34, 39} \/ raw[n] # raw[1] THEN bad
        ELSE IF raw[1] = 39 THEN [ok |-> TRUE, s |-> body]
        ELSE LetIn(norm_basic_str(body, 1), LAMBDA s :
                   IF s = <<0>> THEN bad ELSE [ok |-> TRUE, s |-> s])

\* position of the first unescaped '"' of s at or after i (0 if none);
\* -1 when a backslash is followed by a byte that starts no escape
RECURSIVE ScanBasic(_, _)
ScanBasic(s, i) ==
    IF i > Len(s) \/ s[i] = 10 THEN 0
    ELSE IF s[i] = 34 THEN i
    ELSE IF s[i] = 92
         THEN IF i = Len(s) THEN 0
              ELSE IF UnescapeChar(s[i + 1]) >= 0 \/ s[i + 1] \in {117, 85}
                   THEN ScanBasic(s, i + 2)
                   ELSE -1
    ELSE ScanBasic(s, i + 1)

\* toml_parse(): does the parser accept `key = <text>` as one value token
\* (scan_string); a refusal is a syntax error of the whole document
scan_string(text) ==
    IF text = <<>> THEN FALSE
    ELSE IF text[1] = 34 THEN ScanBasic(text, 2) = Len(text)
    ELSE \A i \in 1..Len(text) : text[i] # 10

toml_int_in(tab, key) == toml_rtoi(toml_raw_in(tab, key))

toml_bool_in(tab, key) == toml_rtob(toml_raw_in(tab, key))

toml_string_in(tab, key) == toml_rtos(toml_raw_in(tab, key))


-----------------------------------------------------------------------------
(* The enum name tables (get_*_str, get_*_val) *)

\* the names of an enum kind, in the order of its values 0, 1, ...
\* blocking mode: "IP", "NXDOMAIN", "NULL", "IP_NODATA_AAAA", "NODATA"
\* ptr type:      "PI.HOLE", "HOSTNAME", "HOSTNAMEFQDN", "NONE"
\* busy reply:    "BLOCK", "ALLOW", "REFUSE", "DROP"
\* refresh:       "ALL", "IPV4_ONLY", "UNKNOWN", "NONE"
EnumNames(t) ==
    CASE t = "CONF_ENUM_BLOCKING_MODE" ->
    <<<<73, 80>>,
      <<78, 88, 68, 79, 77, 65, 73, 78>>,
      <<78, 85, 76, 76>>,
      <<73, 80, 95, 78, 79, 68, 65, 84, 65, 95, 65, 65, 65, 65>>,
      <<78, 79, 68, 65, 84, 65>>>>
      [] t = "CONF_ENUM_PTR_TYPE" ->
    <<<<80, 73, 46, 72, 79, 76, 69>>,
      <<72, 79, 83, 84, 78, 65, 77, 69>>,
      <<72, 79, 83, 84, 78, 65, 77, 69, 70, 81, 68, 78>>,
      <<78, 79, 78, 69>>>>
      [] t = "CONF_ENUM_BUSY_TYPE" ->
    <<<<66, 76, 79, 67, 75>>,
      <<65, 76, 76, 79, 87>>,
      <<82, 69, 70, 85, 83, 69>>,
      <<68, 82, 79, 80>>>>
      [] t = "CONF_ENUM_REFRESH_HOSTNAMES" ->
    <<<<65, 76, 76>>,
      <<73, 80, 86, 52, 95, 79, 78, 76, 89>>,
      <<85, 78, 75, 78, 79, 87, 78>>,
      <<78, 79, 78, 69>>>>

\* "N/A"
S_NA == <<78, 47, 65>>

\* get_blocking_mode_str() and its like: the name of value v
get_enum_str(t, v) ==
    IF v >= 0 /\ v < Len(EnumNames(t)) THEN EnumNames(t)[v + 1] ELSE S_NA

\* get_blocking_mode_val() and its like: the value of the name, -1 for none
get_enum_val(t, text) ==
    LET hits == {i \in 1..Len(EnumNames(t)) : strcasecmp(text, EnumNames(t)[i]) = 0}
    IN  IF hits = {} THEN -1 ELSE (CHOOSE i \in hits : TRUE) - 1

-----------------------------------------------------------------------------
(* C library: inet_ntop() *)

\* printf("%x") of a 16-bit word
RECURSIVE HexDigits(_)
HexDigits(w) ==
    LET d == w % 16
        c == IF d < 10 THEN 48 + d ELSE 87 + d
    IN  IF w < 16 THEN <<c>> ELSE HexDigits(w \div 16) \o <<c>>

\* inet_ntop(AF_INET): dotted quad of four bytes
inet_ntop4(a) ==
    FormatNum(IntToNum(a[1])) \o <<46>> \o FormatNum(IntToNum(a[2])) \o <<46>>
    \o FormatNum(IntToNum(a[3])) \o <<46>> \o FormatNum(IntToNum(a[4]))

\* number of zero words of w from position i on
RECURSIVE ZeroRun(_, _)
ZeroRun(w, i) == IF i > 8 \/ w[i] # 0 THEN 0 ELSE 1 + ZeroRun(w, i + 1)

\* the first longest run of at least two zero words: [base, len], base 0 for none
BestRun(w) ==
    LET cands == {i \in 1..8 : ZeroRun(w, i) >= 2
                               /\ \A j \in 1..8 : ZeroRun(w, j) <= ZeroRun(w, i)}
        b     == IF cands = {} THEN 0 ELSE CHOOSE i \in cands : \A j \in cands : i <= j
    IN  [base |-> b, len |-> IF b = 0 THEN 0 ELSE ZeroRun(w, b)]

\* is the address written with a dotted quad for its last 32 bits
Embeds4(w, best) ==
    /\ best.base = 1
    /\ \/ best.len = 6
       \/ best.len = 7 /\ w[8] # 1
       \/ best.len = 5 /\ w[6] = 65535

RECURSIVE Ntop6From(_, _, _)
Ntop6From(w, i, best) ==
    IF i > 8 THEN (IF best.base # 0 /\ best.base + best.len = 9 THEN <<58>> ELSE <<>>)
    ELSE IF best.base # 0 /\ i >= best.base /\ i < best.base + best.len
         THEN (IF i = best.base THEN <<58>> ELSE <<>>) \o Ntop6From(w, i + 1, best)
    ELSE IF i = 7 /\ Embeds4(w, best)
         THEN <<58>> \o inet_ntop4(<<w[7] \div 256, w[7] % 256, w[8] \div 256, w[8] % 256>>)
    ELSE (IF i # 1 THEN <<58>> ELSE <<>>) \o HexDigits(w[i]) \o Ntop6From(w, i + 1, best)

\* inet_ntop(AF_INET6): the text of eight 16-bit words
inet_ntop6(w) == Ntop6From(w, 1, BestRun(w))

-----------------------------------------------------------------------------
(* toml_helper.c *)

\* the escape of one byte on the slow path of printTOMLstring
EscapeByte(ch) ==
    IF isprint(ch) /\ ch # 34 /\ ch # 92 THEN <<ch>>
    ELSE CASE ch = 8 -> <<92, 98>>
           [] ch = 9 -> <<92, 116>>
           [] ch = 10 -> <<92, 110>>
           [] ch = 12 -> <<92, 102>>
           [] ch = 13 -> <<92, 114>>
           [] ch = 34 -> <<92, 34>>
           [] ch = 92 -> <<92, 92>>
           [] OTHER -> <<92, 48, 120>>
                       \o (IF ch < 16 THEN <<48>> ELSE <<>>) \o HexDigits(ch)

RECURSIVE EscapeFrom(_, _)
EscapeFrom(s, i) ==
    IF i > Len(s) THEN <<>> ELSE EscapeByte(s[i]) \o EscapeFrom(s, i + 1)

\* the test of the first loop: may the string be printed as it is
PlainOK_noquote(s) == \A i \in 1..Len(s) : isprint(s[i]) /\ s[i] # 92

PlainOK(s) == \A i \in 1..Len(s) : isprint(s[i]) /\ s[i] # 34 /\ s[i] # 92

\* printTOMLstring(fp, s): the bytes written
printTOMLstring(s0) ==
    LET s == IF s0 = NULL THEN <<>> ELSE s0
    IN  IF PlainOK(s) THEN <<34>> \o s \o <<34>>
        ELSE <<34>> \o EscapeFrom(s, 1) \o <<34>>

\* writeTOMLvalue(fp, t, v): the bytes written
writeTOMLvalue(t, v) ==
    CASE t = "CONF_BOOL" -> IF v THEN S_true ELSE S_false
      [] t = "CONF_INT" -> FormatNum(IntToNum(v))
      [] t = "CONF_ENUM_PRIVACY_LEVEL" -> FormatNum(IntToNum(v))
      [] t \in {"CONF_UINT", "CONF_LONG", "CONF_ULONG"} -> FormatNum(v)
      [] t = "CONF_STRING" -> printTOMLstring(v)
      [] t \in {"CONF_ENUM_PTR_TYPE", "CONF_ENUM_BUSY_TYPE",
                "CONF_ENUM_BLOCKING_MODE", "CONF_ENUM_REFRESH_HOSTNAMES"} ->
            printTOMLstring(get_enum_str(t, v))
      [] t = "CONF_STRUCT_IN_ADDR" -> printTOMLstring(inet_ntop4(v))
      [] t = "CONF_STRUCT_IN6_ADDR" -> printTOMLstring(inet_ntop6(v))

\* is the int64_t within lo..hi (small bounds)
NumWithin(n, lo, hi) ==
    /\ ~n.neg /\ n.l[2] = 0 /\ n.l[3] = 0 /\ n.l[4] = 0
    /\ n.l[1] >= lo /\ n.l[1] <= hi

\* readTOMLvalue(conf_item, key, toml) for an item of type t holding v:
\* [v, warn, fault]: the value afterwards, the log_warn() messages, and
\* whether toml was dereferenced while NULL
readTOMLvalue(t, v, key, toml) ==
    LET keep == [v |-> v, warn |-> {}, fault |-> FALSE]
        set(x) == [v |-> x, warn |-> {}, fault |-> FALSE]
        invalid == [v |-> v, warn |-> {"Config setting is invalid"}, fault |-> FALSE]
    IN  IF toml = TNULL THEN [v |-> v, warn |-> {}, fault |-> TRUE]
        ELSE CASE t = "CONF_BOOL" ->
                    LetIn(toml_bool_in(toml, key), LAMBDA val :
                          IF val.ok THEN set(val.b) ELSE keep)
               [] t \in {"CONF_INT", "CONF_UINT", "CONF_LONG", "CONF_ULONG",
                         "CONF_ENUM_PRIVACY_LEVEL"} ->
                    LetIn(toml_int_in(toml, key), LAMBDA val :
                    CASE t = "CONF_INT" ->
                           IF val.ok THEN set(Low32(val.i.neg, val.i)) ELSE keep
                      [] t = "CONF_UINT" ->
                           IF val.ok /\ ~val.i.neg
                           THEN set(Num(FALSE, <<val.i.l[1], val.i.l[2], 0, 0>>))
                           ELSE keep
                      [] t = "CONF_LONG" ->
                           IF val.ok THEN set(val.i) ELSE keep
                      [] t = "CONF_ULONG" ->
                           IF val.ok /\ ~val.i.neg THEN set(val.i) ELSE keep
                      [] t = "CONF_ENUM_PRIVACY_LEVEL" ->
                           IF val.ok /\ NumWithin(val.i, PRIVACY_SHOW_ALL, PRIVACY_MAXIMUM)
                           THEN set(val.i.l[1]) ELSE keep)
               [] OTHER ->
                    LetIn(toml_string_in(toml, key), LAMBDA val :
                    CASE t = "CONF_STRING" ->
                           IF val.ok THEN set(val.s) ELSE keep
                      [] t \in {"CONF_ENUM_PTR_TYPE", "CONF_ENUM_BUSY_TYPE",
                                "CONF_ENUM_BLOCKING_MODE",
                                "CONF_ENUM_REFRESH_HOSTNAMES"} ->
                           IF ~val.ok THEN keep
                           ELSE LetIn(get_enum_val(t, val.s), LAMBDA e :
                                      IF e # -1 THEN set(e) ELSE invalid)
                      [] t = "CONF_STRUCT_IN_ADDR" ->
                           IF ~val.ok THEN keep
                           ELSE LetIn(inet_pton4(val.s), LAMBDA addr4 :
                                      IF addr4.ok THEN set(addr4.addr) ELSE keep)
                      [] t = "CONF_STRUCT_IN6_ADDR" ->
                           IF ~val.ok THEN keep
                           ELSE LetIn(inet_pton6(val.s), LAMBDA addr6 :
                                      IF addr6.ok THEN set(addr6.addr) ELSE keep))


-----------------------------------------------------------------------------
(* toml_reader.c *)

\* conf_item.t
TypeOf(k) ==
    CASE k = "misc.privacylevel" -> "CONF_ENUM_PRIVACY_LEVEL"
      [] k = "dns.blockingmode" -> "CONF_ENUM_BLOCKING_MODE"
      [] k = "database.maxDBdays" -> "CONF_INT"
      [] k = "files.database" -> "CONF_STRING"
      [] k \in {"dns.reply.host.v4", "dns.reply.blocking.v4"} -> "CONF_STRUCT_IN_ADDR"
      [] k \in {"dns.reply.host.v6", "dns.reply.blocking.v6"} -> "CONF_STRUCT_IN6_ADDR"
      [] k \in {"database.network.expire", "dns.blockTTL", "misc.check.shmem",
                "misc.check.disk"} -> "CONF_UINT"
      [] k = "resolver.refreshNames" -> "CONF_ENUM_REFRESH_HOSTNAMES"
      [] OTHER -> "CONF_BOOL"

\* conf_item.p: the path of the item, one segment per level
PathOf(k) ==
    CASE k = "debug.config" -> <<"debug", "config">>
      [] k = "misc.privacylevel" -> <<"misc", "privacylevel">>
      [] k = "dns.blockingmode" -> <<"dns", "blockingmode">>
      [] k = "database.maxDBdays" -> <<"database", "maxDBdays">>
      [] k = "files.database" -> <<"files", "database">>
      [] k = "dns.reply.host.overwrite_v4" -> <<"dns", "reply", "host", "overwrite_v4">>
      [] k = "dns.reply.host.v4" -> <<"dns", "reply", "host", "IPv4">>
      [] k = "dns.reply.host.overwrite_v6" -> <<"dns", "reply", "host", "overwrite_v6">>
      [] k = "dns.reply.host.v6" -> <<"dns", "reply", "host", "IPv6">>
      [] k = "dns.reply.blocking.overwrite_v4" -> <<"dns", "reply", "blocking", "overwrite_v4">>
      [] k = "dns.reply.blocking.v4" -> <<"dns", "reply", "blocking", "IPv4">>
      [] k = "dns.reply.blocking.overwrite_v6" -> <<"dns", "reply", "blocking", "overwrite_v6">>
      [] k = "dns.reply.blocking.v6" -> <<"dns", "reply", "blocking", "IPv6">>
      [] k = "database.network.expire" -> <<"database", "network", "expire">>
      [] k = "resolver.refreshNames" -> <<"resolver", "refreshNames">>
      [] k = "dns.blockTTL" -> <<"dns", "blockTTL">>
      [] k = "misc.check.shmem" -> <<"misc", "check", "shmem">>
      [] k = "misc.check.disk" -> <<"misc", "check", "disk">>

\* config_path_depth(conf_item)
config_path_depth(k) == Len(PathOf(k))

\* parseTOML(): the parsed document, TNULL when no file can be opened or the
\* file does not parse
parseTOML ==
    IF toml_file.exists /\ toml_file.parses THEN toml_file.doc ELSE TNULL

\* the inner loop of readFTLtoml: table[j] for j = 0 .. level-2, filled until
\* a table is missing; the result is table[level-2], which is still NULL
\* when the loop broke
RECURSIVE WalkTables(_, _, _)
WalkTables(tab, path, j) ==
    IF j > Len(path) - 1 THEN tab
    ELSE IF toml_table_in(tab, path[j]) = TNULL THEN TNULL
    ELSE WalkTables(toml_table_in(tab, path[j]), path, j + 1)

\* the table handed to readTOMLvalue for the item: table[level-2]
LeafTable(conf, k) == WalkTables(conf, PathOf(k), 1)

\* readTOMLvalue() applied to item k of the registry; st = [cfg, warn, fault]
ReadItem(st, k, key, toml) ==
    LetIn(readTOMLvalue(TypeOf(k), st.cfg[k], key, toml),
          LAMBDA r : [cfg |-> [st.cfg EXCEPT ![k] = r.v],
                      warn |-> st.warn \cup r.warn,
                      fault |-> st.fault \/ r.fault])

\* the loop over all known config items, from item i on; it ends with the
\* first dereference of a NULL table
RECURSIVE ReadItemsFrom(_, _, _)
ReadItemsFrom(st, conf, i) ==
    IF i > Len(Items) \/ st.fault THEN st
    ELSE LetIn(ReadItem(st, Items[i], PathOf(Items[i])[config_path_depth(Items[i])],
                        LeafTable(conf, Items[i])),
               LAMBDA s : ReadItemsFrom(s, conf, i + 1))

\* the debug config is read before the full config
ReadDebugConfig(st, conf) ==
    IF toml_table_in(conf, "debug") # TNULL
    THEN ReadItem(st, "debug.config", "config", toml_table_in(conf, "debug"))
    ELSE st

\* readFTLtoml() after its first statement, on the registry cfg0:
\* [cfg, warn, fault, ret]
readFTLtoml_from(cfg0) ==
    IF parseTOML = TNULL
    THEN [cfg |-> cfg0, warn |-> {}, fault |-> FALSE, ret |-> "false"]
    ELSE LetIn(ReadDebugConfig([cfg |-> cfg0, warn |-> {}, fault |-> FALSE], parseTOML),
               LAMBDA st1 :
         LetIn(ReadItemsFrom(st1, parseTOML, 1),
               LAMBDA st2 :
                   [cfg |-> st2.cfg, warn |-> st2.warn, fault |-> st2.fault,
                    ret |-> IF st2.fault THEN "SIGSEGV" ELSE "true"]))

\* a readFTLtoml() that does not initialise the registry first
readFTLtoml_body_noinit(cfg) == readFTLtoml_from(cfg)

\* readFTLtoml(): initConfig(), then the rest
readFTLtoml_body(cfg) == readFTLtoml_from(initConfig)

\* getPrivacyLevel(): [cfg, warn, ret]
getPrivacyLevel_body(cfg) ==
    LetIn(parseTOML, LAMBDA conf :
    IF conf = TNULL THEN [cfg |-> cfg, warn |-> {}, ret |-> "false"]
    ELSE LetIn(toml_table_in(conf, "misc"), LAMBDA misc :
         IF misc = TNULL THEN [cfg |-> cfg, warn |-> {}, ret |-> "false"]
         ELSE LetIn(toml_int_in(misc, "privacyLevel"), LAMBDA privacylevel :
              IF ~privacylevel.ok THEN [cfg |-> cfg, warn |-> {}, ret |-> "false"]
              ELSE IF NumWithin(privacylevel.i, PRIVACY_SHOW_ALL, PRIVACY_MAXIMUM)
              THEN [cfg |-> [cfg EXCEPT !["misc.privacylevel"] = privacylevel.i.l[1]],
                    warn |-> {}, ret |-> "true"]
              ELSE [cfg |-> cfg, warn |-> {"Invalid setting for misc.privacyLevel"},
                    ret |-> "true"])))

\* getBlockingMode(): [cfg, warn, ret]
getBlockingMode_body(cfg) ==
    LetIn(parseTOML, LAMBDA conf :
    IF conf = TNULL THEN [cfg |-> cfg, warn |-> {}, ret |-> "false"]
    ELSE LetIn(toml_table_in(conf, "dns"), LAMBDA dns :
         IF dns = TNULL THEN [cfg |-> cfg, warn |-> {}, ret |-> "false"]
         ELSE LetIn(toml_string_in(dns, "blockingmode"), LAMBDA blockingmode :
              IF ~blockingmode.ok THEN [cfg |-> cfg, warn |-> {}, ret |-> "false"]
              ELSE LetIn(get_enum_val("CONF_ENUM_BLOCKING_MODE", blockingmode.s),
                         LAMBDA blocking_mode :
                   IF blocking_mode # -1
                   THEN [cfg |-> [cfg EXCEPT !["dns.blockingmode"] = blocking_mode],
                         warn |-> {}, ret |-> "true"]
                   ELSE [cfg |-> cfg, warn |-> {"Config setting is invalid"},
                         ret |-> "true"]))))


-----------------------------------------------------------------------------
(* The files the program may find.  A legacy file is a sequence of at most   *)
(* MaxLines lines; the lines are drawn from one family of keys at a time.    *)

\* "MAXDBDAYS=999999999"
\* "MAXDBDAYS=-5"
\* "MAXDBDAYS=-1"
\* "MAXDBDAYS=4294967301"
\* "MAXDBDAYS=24855"
\* "DBFILE=/x.db"
\* "DBFILE="
Lines_db ==
    {<<77, 65, 88, 68, 66, 68, 65, 89, 83, 61, 57, 57, 57, 57, 57, 57, 57, 57, 57>>,
     <<77, 65, 88, 68, 66, 68, 65, 89, 83, 61, 45, 53>>,
     <<77, 65, 88, 68, 66, 68, 65, 89, 83, 61, 45, 49>>,
     <<77, 65, 88, 68, 66, 68, 65, 89, 83, 61, 52, 50, 57, 52, 57, 54, 55, 51, 48, 49>>,
     <<77, 65, 88, 68, 66, 68, 65, 89, 83, 61, 50, 52, 56, 53, 53>>,
     <<68, 66, 70, 73, 76, 69, 61, 47, 120, 46, 100, 98>>,
     <<68, 66, 70, 73, 76, 69, 61>>}

\* "PRIVACYLEVEL=0"
\* "PRIVACYLEVEL=3"
\* "PRIVACYLEVEL=4"
\* "PRIVACYLEVEL=abc"
\* "#PRIVACYLEVEL=3"
Lines_privacy ==
    {<<80, 82, 73, 86, 65, 67, 89, 76, 69, 86, 69, 76, 61, 48>>,
     <<80, 82, 73, 86, 65, 67, 89, 76, 69, 86, 69, 76, 61, 51>>,
     <<80, 82, 73, 86, 65, 67, 89, 76, 69, 86, 69, 76, 61, 52>>,
     <<80, 82, 73, 86, 65, 67, 89, 76, 69, 86, 69, 76, 61, 97, 98, 99>>,
     <<35, 80, 82, 73, 86, 65, 67, 89, 76, 69, 86, 69, 76, 61, 51>>}

\* lines that hold "PRIVACYLEVEL=" at their start or further on
\* "PRIVACYLEVEL=2"
\* "XPRIVACYLEVEL=3"
\* "DBFILE=/PRIVACYLEVEL=1"
Lines_shadow ==
    {<<80, 82, 73, 86, 65, 67, 89, 76, 69, 86, 69, 76, 61, 50>>,
     <<88, 80, 82, 73, 86, 65, 67, 89, 76, 69, 86, 69, 76, 61, 51>>,
     <<68, 66, 70, 73, 76, 69, 61, 47, 80, 82, 73, 86, 65, 67, 89, 76, 69, 86, 69, 76, 61, 49>>}

\* "CHECK_DISK=50"
\* "CHECK_DISK=0"
\* "CHECK_DISK=101"
\* "CHECK_SHMEM=50"
\* "CHECK_SHMEM="
\* "MAXNETAGE=7"
Lines_check ==
    {<<67, 72, 69, 67, 75, 95, 68, 73, 83, 75, 61, 53, 48>>,
     <<67, 72, 69, 67, 75, 95, 68, 73, 83, 75, 61, 48>>,
     <<67, 72, 69, 67, 75, 95, 68, 73, 83, 75, 61, 49, 48, 49>>,
     <<67, 72, 69, 67, 75, 95, 83, 72, 77, 69, 77, 61, 53, 48>>,
     <<67, 72, 69, 67, 75, 95, 83, 72, 77, 69, 77, 61>>,
     <<77, 65, 88, 78, 69, 84, 65, 71, 69, 61, 55>>}

\* "REFRESH_HOSTNAMES=ALL"
\* "REFRESH_HOSTNAMES=bogus"
\* "BLOCK_TTL=5"
\* "BLOCK_TTL=-5"
\* "MAXDBDAYS="
Lines_misc ==
    {<<82, 69, 70, 82, 69, 83, 72, 95, 72, 79, 83, 84, 78, 65, 77, 69, 83, 61, 65, 76, 76>>,
     <<82, 69, 70, 82, 69, 83, 72, 95, 72, 79, 83, 84, 78, 65, 77, 69, 83, 61, 98, 111, 103, 117, 115>>,
     <<66, 76, 79, 67, 75, 95, 84, 84, 76, 61, 53>>,
     <<66, 76, 79, 67, 75, 95, 84, 84, 76, 61, 45, 53>>,
     <<77, 65, 88, 68, 66, 68, 65, 89, 83, 61>>}

\* "BLOCKINGMODE=nxdomain"
\* "BLOCKINGMODE=NxDomain"
\* "BLOCKINGMODE=null"
\* "BLOCKINGMODE=IP"
\* "BLOCKINGMODE=Ip-NoData-aaaa"
\* "BLOCKINGMODE=NODATA"
\* "BLOCKINGMODE=bogus"
Lines_mode ==
    {<<66, 76, 79, 67, 75, 73, 78, 71, 77, 79, 68, 69, 61, 110, 120, 100, 111, 109, 97, 105, 110>>,
     <<66, 76, 79, 67, 75, 73, 78, 71, 77, 79, 68, 69, 61, 78, 120, 68, 111, 109, 97, 105, 110>>,
     <<66, 76, 79, 67, 75, 73, 78, 71, 77, 79, 68, 69, 61, 110, 117, 108, 108>>,
     <<66, 76, 79, 67, 75, 73, 78, 71, 77, 79, 68, 69, 61, 73, 80>>,
     <<66, 76, 79, 67, 75, 73, 78, 71, 77, 79, 68, 69, 61, 73, 112, 45, 78, 111, 68, 97, 116, 97, 45, 97, 97, 97, 97>>,
     <<66, 76, 79, 67, 75, 73, 78, 71, 77, 79, 68, 69, 61, 78, 79, 68, 65, 84, 65>>,
     <<66, 76, 79, 67, 75, 73, 78, 71, 77, 79, 68, 69, 61, 98, 111, 103, 117, 115>>}

\* "LOCAL_IPV4=10.0.0.1"
\* "LOCAL_IPV4=10.0.0"
\* "BLOCK_IPV4=10.0.0.2"
\* "REPLY_ADDR4=10.0.0.3"
\* "REPLY_ADDR4=10.0.0.300"
\* ";REPLY_ADDR4=10.0.0.4"
Lines_v4 ==
    {<<76, 79, 67, 65, 76, 95, 73, 80, 86, 52, 61, 49, 48, 46, 48, 46, 48, 46, 49>>,
     <<76, 79, 67, 65, 76, 95, 73, 80, 86, 52, 61, 49, 48, 46, 48, 46, 48>>,
     <<66, 76, 79, 67, 75, 95, 73, 80, 86, 52, 61, 49, 48, 46, 48, 46, 48, 46, 50>>,
     <<82, 69, 80, 76, 89, 95, 65, 68, 68, 82, 52, 61, 49, 48, 46, 48, 46, 48, 46, 51>>,
     <<82, 69, 80, 76, 89, 95, 65, 68, 68, 82, 52, 61, 49, 48, 46, 48, 46, 48, 46, 51, 48, 48>>,
     <<59, 82, 69, 80, 76, 89, 95, 65, 68, 68, 82, 52, 61, 49, 48, 46, 48, 46, 48, 46, 52>>}

\* "LOCAL_IPV6=::1"
\* "LOCAL_IPV6=1::2::3"
\* "BLOCK_IPV6=fe80::2"
\* "REPLY_ADDR6=fd00::3"
\* "REPLY_ADDR6=10.0.0.3"
\* "REPLY_ADDR6=::ffff:10.0.0.3"
Lines_v6 ==
    {<<76, 79, 67, 65, 76, 95, 73, 80, 86, 54, 61, 58, 58, 49>>,
     <<76, 79, 67, 65, 76, 95, 73, 80, 86, 54, 61, 49, 58, 58, 50, 58, 58, 51>>,
     <<66, 76, 79, 67, 75, 95, 73, 80, 86, 54, 61, 102, 101, 56, 48, 58, 58, 50>>,
     <<82, 69, 80, 76, 89, 95, 65, 68, 68, 82, 54, 61, 102, 100, 48, 48, 58, 58, 51>>,
     <<82, 69, 80, 76, 89, 95, 65, 68, 68, 82, 54, 61, 49, 48, 46, 48, 46, 48, 46, 51>>,
     <<82, 69, 80, 76, 89, 95, 65, 68, 68, 82, 54, 61, 58, 58, 102, 102, 102, 102, 58, 49, 48, 46, 48, 46, 48, 46, 51>>}

\* all sequences of at most n elements of S
RECURSIVE SeqsUpTo(_, _)
SeqsUpTo(S, n) ==
    IF n = 0 THEN {<<>>}
    ELSE SeqsUpTo(S, n - 1)
         \cup {Append(q, x) : q \in {r \in SeqsUpTo(S, n - 1) : Len(r) = n - 1}, x \in S}

NoConfFile == [exists |-> FALSE, lines |-> <<>>]

ConfFiles(L) == {NoConfFile} \cup {[exists |-> TRUE, lines |-> q] : q \in SeqsUpTo(L, MaxLines)}

\* a table, an entry holding a sub-table, an entry holding a raw value
Tab(kv) == [null |-> FALSE, kv |-> kv]

Sub(t) == [tab |-> TRUE, t |-> t, raw |-> <<>>]

Val(raw) == [tab |-> FALSE, t |-> TNULL, raw |-> raw]

Without(f, S) == [k \in DOMAIN f \ S |-> f[k]]

\* the key/value pairs of a table: those leaves of o (a record of raw
\* values, NULL for an absent key) whose field names are in keys
Leaves(o, keys) == [k \in {x \in keys : o[x] # NULL} |-> Val(o[k])]

NoLeaves ==
    [config |-> NULL, privacylevel |-> NULL, privacyLevel |-> NULL,
     blockingmode |-> NULL, maxDBdays |-> NULL, database |-> NULL,
     overwrite_v4 |-> NULL, IPv4 |-> NULL, overwrite_v6 |-> NULL, IPv6 |-> NULL,
     expire |-> NULL, refreshNames |-> NULL, blockTTL |-> NULL,
     shmem |-> NULL, disk |-> NULL]

\* A document with every table of the registry's paths, except those named
\* in drop, whose leaves are those of o (host and blocking reply alike).
Doc(o, drop) ==
    LET addr  == Tab(Leaves(o, {"overwrite_v4", "IPv4", "overwrite_v6", "IPv6"}))
        reply == Tab(Without(("host" :> Sub(addr)) @@ ("blocking" :> Sub(addr)), drop))
        dns   == Tab(Without(("reply" :> Sub(reply))
                             @@ Leaves(o, {"blockingmode", "blockTTL"}), drop))
        check == Tab(Leaves(o, {"shmem", "disk"}))
        misc  == Tab(Without(("check" :> Sub(check))
                             @@ Leaves(o, {"privacylevel", "privacyLevel"}), drop))
        db    == Tab(Without(("network" :> Sub(Tab(Leaves(o, {"expire"}))))
                             @@ Leaves(o, {"maxDBdays"}), drop))
        top   == ("debug" :> Sub(Tab(Leaves(o, {"config"}))))
                 @@ ("misc" :> Sub(misc))
                 @@ ("dns" :> Sub(dns))
                 @@ ("database" :> Sub(db))
                 @@ ("files" :> Sub(Tab(Leaves(o, {"database"}))))
                 @@ ("resolver" :> Sub(Tab(Leaves(o, {"refreshNames"}))))
    IN  Tab(Without(top, drop))

NoTomlFile == [exists |-> FALSE, parses |-> FALSE, doc |-> TNULL]

BadTomlFile == [exists |-> TRUE, parses |-> FALSE, doc |-> TNULL]

TomlFile(o, drop) == [exists |-> TRUE, parses |-> TRUE, doc |-> Doc(o, drop)]

Q(s) == <<34>> \o s \o <<34>>

\* the structured files of each family
Toml_db ==
    {NoTomlFile,
     TomlFile([NoLeaves EXCEPT !.maxDBdays = <<55>>, !.database = Q(<<>>)], {})}

Toml_privacy ==
    {NoTomlFile,
     TomlFile([NoLeaves EXCEPT !.privacyLevel = <<49>>, !.privacylevel = <<50>>], {}),
     TomlFile([NoLeaves EXCEPT !.privacyLevel = <<52>>, !.privacylevel = <<52>>], {})}

Toml_mode ==
    {NoTomlFile,
     TomlFile([NoLeaves EXCEPT !.blockingmode = Q(<<110, 120, 100, 111, 109, 97, 105, 110>>)], {})}

Toml_v4 ==
    {NoTomlFile,
     TomlFile([NoLeaves EXCEPT !.overwrite_v4 = S_true,
                               !.IPv4 = Q(<<49, 57, 50, 46, 49, 54, 56, 46, 49, 46, 49>>)], {})}

Toml_v6 ==
    {NoTomlFile,
     TomlFile([NoLeaves EXCEPT !.overwrite_v6 = S_true,
                               !.IPv6 = Q(<<102, 100, 48, 48, 58, 58, 57>>)], {})}

Toml_check ==
    {NoTomlFile,
     TomlFile([NoLeaves EXCEPT !.disk = <<51, 48, 48>>, !.shmem = <<55, 48>>], {})}

\* a file that does not parse, a document with values no item accepts, and
\* documents in which one table of some item's path is missing
Toml_tables ==
    {BadTomlFile,
     TomlFile([NoLeaves EXCEPT !.privacyLevel = <<52>>, !.privacylevel = <<45, 49>>,
                               !.blockingmode = Q(<<98, 111, 103, 117, 115>>)], {})} \cup
    {TomlFile([NoLeaves EXCEPT !.config = S_true, !.privacylevel = <<50>>,
                               !.blockingmode = Q(<<78, 79, 68, 65, 84, 65>>),
                               !.maxDBdays = <<51, 48>>,
                               !.IPv4 = Q(<<49, 48, 46, 49, 46, 49, 46, 49>>)], drop) :
        drop \in {{}, {"debug"}, {"misc"}, {"dns"}, {"reply"}, {"host"},
                  {"blocking"}, {"database"}, {"files"}, {"dns", "files"}}}

Families == {"db", "privacy", "mode", "v4", "v6", "tables", "shadow", "check", "misc"}

ConfFilesOf(fam) ==
    CASE fam = "db" -> ConfFiles(Lines_db)
      [] fam = "privacy" -> ConfFiles(Lines_privacy)
      [] fam = "mode" -> ConfFiles(Lines_mode)
      [] fam = "v4" -> ConfFiles(Lines_v4)
      [] fam = "v6" -> ConfFiles(Lines_v6)
      [] fam = "tables" -> ConfFiles({})
      [] fam = "shadow" -> ConfFiles(Lines_shadow)
      [] fam = "check" -> ConfFiles(Lines_check)
      [] fam = "misc" -> ConfFiles(Lines_misc)

TomlFilesOf(fam) ==
    CASE fam = "db" -> Toml_db
      [] fam = "privacy" -> Toml_privacy
      [] fam = "mode" -> Toml_mode
      [] fam = "v4" -> Toml_v4
      [] fam = "v6" -> Toml_v6
      [] fam = "tables" -> Toml_tables
      [] fam = "shadow" -> {NoTomlFile}
      [] fam = "check" -> Toml_check
      [] fam = "misc" -> {NoTomlFile}

-----------------------------------------------------------------------------
(* The program: the registry is built with its defaults, then the reader     *)
(* routines are called in any order, on files that do not change except      *)
(* that they may be removed.                                                 *)

NoIO == [kind |-> "none"]

Init ==
    /\ config = initConfig
    /\ \E fam \in Families :
          /\ conf_file \in ConfFilesOf(fam)
          /\ toml_file \in TomlFilesOf(fam)
    /\ last = [op |-> "init", ret |-> "void"]
    /\ pre = initConfig
    /\ warnings = {}
    /\ io = NoIO

\* the process runs (it did not die of a NULL dereference)
Alive == last.ret # "SIGSEGV"

Return(op, ret, cfg, warn) ==
    /\ config' = cfg
    /\ last' = [op |-> op, ret |-> ret]
    /\ pre' = config
    /\ warnings' = warn
    /\ UNCHANGED <<conf_file, toml_file, io>>

readFTLtoml ==
    /\ Alive
    /\ \E r \in {readFTLtoml_body(config)} :
          Return("readFTLtoml", r.ret, r.cfg, r.warn)

getPrivacyLevel ==
    /\ Alive
    /\ \E r \in {getPrivacyLevel_body(config)} :
          Return("getPrivacyLevel", r.ret, r.cfg, r.warn)

getBlockingMode ==
    /\ Alive
    /\ \E r \in {getBlockingMode_body(config)} :
          Return("getBlockingMode", r.ret, r.cfg, r.warn)

readFTLlegacy ==
    /\ Alive
    /\ IF openFTLconf = FNULL
       THEN Return("readFTLlegacy", "NULL", config, {})
       ELSE \E fp \in {openFTLconf} :
            \E ub \in ScanOverflow :
            \E s1 \in {legacy_MAXDBDAYS([cfg |-> config, warn |-> {}], fp, ub)} :
            \E s2 \in {legacy_DBFILE(s1, fp)} :
            \E s3 \in {getPrivacyLevelLegacy(s2, fp, ub)} :
            \E s4 \in {getBlockingModeLegacy(s3, fp)} :
            \E s4a \in {legacy_MAXNETAGE(s4, fp, ub)} :
            \E s4b \in {legacy_REFRESH_HOSTNAMES(s4a, fp)} :
            \E libc \in PtonFailure :
            \E s5 \in {legacy_ADDR4(s4b, fp, K_LOCAL_IPV4,
                            "dns.reply.host.overwrite_v4", "dns.reply.host.v4", libc)} :
            \E s6 \in {legacy_ADDR6(s5, fp, K_LOCAL_IPV6,
                            "dns.reply.host.overwrite_v6", "dns.reply.host.v6")} :
            \E s7 \in {legacy_ADDR4(s6, fp, K_BLOCK_IPV4,
                            "dns.reply.blocking.overwrite_v4", "dns.reply.blocking.v4", libc)} :
            \E s8 \in {legacy_ADDR6(s7, fp, K_BLOCK_IPV6,
                            "dns.reply.blocking.overwrite_v6", "dns.reply.blocking.v6")} :
            \E s9 \in {legacy_REPLY_ADDR4(s8, fp)} :
            \E junk \in StackJunk :
            \E s10 \in {legacy_REPLY_ADDR6(s9, fp, junk)} :
            \E s11 \in {legacy_BLOCK_TTL(s10, fp, ub)} :
            \E s12 \in {legacy_CHECK_SHMEM(s11, fp, ub)} :
            \E order \in ByteOrder :
            \E st \in {legacy_CHECK_DISK(s12, fp, ub, order)} :
                Return("readFTLlegacy", "path", st.cfg, st.warn)

\* getPrivacyLevelLegacy(NULL)
getPrivacyLevelLegacy_standalone ==
    /\ Alive
    /\ \E ub \in ScanOverflow :
       \E st \in {getPrivacyLevelLegacy([cfg |-> config, warn |-> {}], FNULL, ub)} :
           Return("getPrivacyLevelLegacy", "void", st.cfg, st.warn)

\* getBlockingModeLegacy(NULL)
getBlockingModeLegacy_standalone ==
    /\ Alive
    /\ \E st \in {getBlockingModeLegacy([cfg |-> config, warn |-> {}], FNULL)} :
           Return("getBlockingModeLegacy", "void", st.cfg, st.warn)

\* the environment removes the configuration files
unlink ==
    /\ toml_file.exists \/ conf_file.exists
    /\ toml_file' = NoTomlFile
    /\ conf_file' = NoConfFile
    /\ last' = [op |-> "unlink", ret |-> "void"]
    /\ pre' = config
    /\ warnings' = {}
    /\ UNCHANGED <<config, io>>

Next ==
    \/ readFTLtoml
    \/ getPrivacyLevel
    \/ getBlockingMode
    \/ readFTLlegacy
    \/ getPrivacyLevelLegacy_standalone
    \/ getBlockingModeLegacy_standalone
    \/ unlink

Spec == Init /\ [][Next]_vars

-----------------------------------------------------------------------------
(* Properties of the legacy reader *)

\* the trimmed text the legacy file gives for a key (NULL if it has none)
FileText(key) == parseFTLconf(openFTLconf, key)

\* the decimal numeral of an int
Numeral(v) == FormatNum(IntToNum(v))

\* the last operation read the legacy file
LegacyLoaded == last.op = "readFTLlegacy" /\ last.ret = "path"

\* C1: during a legacy load the privacy level never decreases: after
\* getPrivacyLevelLegacy and after the whole readFTLlegacy the level is at
\* least the starting level L; with PRIVACYLEVEL=v in the file it is v when v
\* is a valid level strictly greater than L and L otherwise, and it changes
\* in no other case.
C1_PrivacyLevelNeverDecreases ==
    last.op \in {"getPrivacyLevelLegacy", "readFTLlegacy"} =>
        LET L    == pre["misc.privacylevel"]
            new  == config["misc.privacylevel"]
            text == FileText(K_PRIVACYLEVEL)
        IN  /\ new >= L
            /\ \A v \in -1..4 :
                  text = Numeral(v) =>
                      new = IF v >= PRIVACY_SHOW_ALL /\ v <= PRIVACY_MAXIMUM /\ v > L
                            THEN v ELSE L
            /\ new # L =>
                  \E v \in PRIVACY_SHOW_ALL..PRIVACY_MAXIMUM :
                      text = Numeral(v) /\ v > L /\ new = v

\* C1 happens: the level was 1, the file says PRIVACYLEVEL=0, and the level
\* is still 1 after getPrivacyLevelLegacy
C1_Witness ==
    /\ last.op = "getPrivacyLevelLegacy"
    /\ pre["misc.privacylevel"] = 1
    /\ FileText(K_PRIVACYLEVEL) = <<48>>
    /\ config["misc.privacylevel"] = 1

\* the text is a decimal numeral: an optional '-', then digits without a
\* leading zero
IsDecimal(text) ==
    LET d == IF text # <<>> /\ text[1] = 45 THEN Tail(text) ELSE text
    IN  /\ text # NULL
        /\ d # <<>>
        /\ \A i \in 1..Len(d) : isdigit(d[i])
        /\ d[1] = 48 => Len(d) = 1

\* the magnitude of a decimal numeral
DecimalMag(text) ==
    LET d == IF text[1] = 45 THEN Tail(text) ELSE text
    IN  ScanDigits(d, 1, 10, ZeroMag, 0).m

\* is the magnitude greater than the int n (0 <= n < 65536)
MagAbove(m, n) ==
    m.ovf \/ m.l[4] > 0 \/ m.l[3] > 0 \/ m.l[2] > 0 \/ m.l[1] > n

\* C2: legacy MAXDBDAYS=v, the database path not empty: the stored max-days
\* value is INT_MAX/86400 if v > INT_MAX/86400, v if v = -1 or
\* 0 <= v <= INT_MAX/86400, and the previous value if v < -1.
C2_MaxDBDaysClamped ==
    (/\ LegacyLoaded
     /\ pre["files.database"] # <<>>
     /\ IsDecimal(FileText(K_MAXDBDAYS))) =>
        LET text   == FileText(K_MAXDBDAYS)
            neg    == text[1] = 45
            m      == DecimalMag(text)
            stored == config["database.maxDBdays"]
        IN  /\ (~neg /\ MagAbove(m, maxdbdays_max)) => stored = maxdbdays_max
            /\ (~neg /\ ~MagAbove(m, maxdbdays_max)) => stored = m.l[1]
            /\ (neg /\ ~MagAbove(m, 1)) => stored = 0 - m.l[1]
            /\ (neg /\ MagAbove(m, 1)) => stored = pre["database.maxDBdays"]

\* the two texts differ at most in the case of their letters
DifferOnlyInCase(a, b) ==
    /\ Len(a) = Len(b)
    /\ \A i \in 1..Len(a) :
          \/ a[i] = b[i]
          \/ a[i] \in 65..90 /\ b[i] = a[i] + 32
          \/ a[i] \in 97..122 /\ b[i] = a[i] - 32

\* the names of the blocking modes
ModeNames ==
    {[name |-> S_NXDOMAIN, mode |-> MODE_NX],
     [name |-> S_NULL, mode |-> MODE_NULL],
     [name |-> S_IP_NODATA_AAAA, mode |-> MODE_IP_NODATA_AAAA],
     [name |-> S_IP, mode |-> MODE_IP],
     [name |-> S_NODATA, mode |-> MODE_NODATA]}

\* the legacy file has a BLOCKINGMODE and the last operation read it
BlockingModeRead ==
    /\ \/ last.op = "getBlockingModeLegacy" /\ conf_file.exists
       \/ LegacyLoaded
    /\ FileText(K_BLOCKINGMODE) # NULL

\* C3: the legacy BLOCKINGMODE is resolved without regard to letter case:
\* every value that differs from a mode's name only in the case of its
\* letters leaves config.dns.blockingmode at that mode, so any two such
\* values leave it at the same mode.
C3_BlockingModeCaseInsensitive ==
    BlockingModeRead =>
        \A n \in ModeNames :
            DifferOnlyInCase(FileText(K_BLOCKINGMODE), n.name)
                => config["dns.blockingmode"] = n.mode

\* C3 happens: BLOCKINGMODE=NxDomain was read by getBlockingModeLegacy and
\* the mode is MODE_NX
C3_Witness ==
    /\ last.op = "getBlockingModeLegacy"
    /\ FileText(K_BLOCKINGMODE) = <<78, 120, 68, 111, 109, 97, 105, 110>>
    /\ config["dns.blockingmode"] = MODE_NX

\* the BLOCKINGMODE read is the name of no mode
UnknownModeRead ==
    /\ BlockingModeRead
    /\ \A n \in ModeNames : ~DifferOnlyInCase(FileText(K_BLOCKINGMODE), n.name)

\* C4 (as stated): an unrecognised BLOCKINGMODE leaves the blocking mode at
\* the value it held before the call, whatever that value was, and a warning
\* is logged.
C4_UnknownModeKeepsPrior ==
    UnknownModeRead =>
        /\ config["dns.blockingmode"] = pre["dns.blockingmode"]
        /\ "Unknown blocking mode, using NULL as fallback" \in warnings

\* C4 (amended): an unrecognised BLOCKINGMODE leaves the blocking mode at the
\* item's default, whatever it held before the call, and a warning is logged.
C4_UnknownModeGivesDefault ==
    UnknownModeRead =>
        /\ config["dns.blockingmode"] = DefaultOf("dns.blockingmode")
        /\ "Unknown blocking mode, using NULL as fallback" \in warnings

\* C4 happens: the mode was MODE_NX, BLOCKINGMODE=bogus was read by
\* getBlockingModeLegacy, and the mode is the default
C4_Witness ==
    /\ last.op = "getBlockingModeLegacy"
    /\ pre["dns.blockingmode"] = MODE_NX
    /\ pre["dns.blockingmode"] # DefaultOf("dns.blockingmode")
    /\ FileText(K_BLOCKINGMODE) = <<98, 111, 103, 117, 115>>
    /\ config["dns.blockingmode"] = DefaultOf("dns.blockingmode")
    /\ warnings # {}

\* the text is an IPv4 address in dotted-decimal form
ValidV4(text) == text # NULL /\ inet_pton4(text).ok

\* the text is an IPv6 address in colon-hex form
ValidV6(text) == text # NULL /\ inet_pton6(text).ok

\* C5: in a legacy load, a valid REPLY_ADDR4 next to a valid LOCAL_IPV4 leaves
\* the host-reply IPv4 address at the LOCAL_IPV4 address and a warning is
\* emitted; with neither LOCAL_IPV4 nor BLOCK_IPV4 set, a valid REPLY_ADDR4
\* is both the host-reply and the blocking-reply IPv4 address and both
\* overwrite flags are true.
C5_ReplyAddr4Precedence ==
    (LegacyLoaded /\ ValidV4(FileText(K_REPLY_ADDR4))) =>
        LET local == FileText(K_LOCAL_IPV4)
            block == FileText(K_BLOCK_IPV4)
            reply == inet_pton4(FileText(K_REPLY_ADDR4)).addr
        IN  /\ ValidV4(local) =>
                 /\ config["dns.reply.host.v4"] = inet_pton4(local).addr
                 /\ "Ignoring REPLY_ADDR4 as LOCAL_IPV4 or BLOCK_IPV4 has been specified."
                        \in warnings
            /\ (~ValidV4(local) /\ ~ValidV4(block)) =>
                 /\ config["dns.reply.host.v4"] = reply
                 /\ config["dns.reply.blocking.v4"] = reply
                 /\ config["dns.reply.host.overwrite_v4"]
                 /\ config["dns.reply.blocking.overwrite_v4"]

\* C5 happens: LOCAL_IPV4=10.0.0.1 and REPLY_ADDR4=10.0.0.3 were read, the
\* host-reply address is 10.0.0.1, the blocking-reply address was not set
C5_Witness ==
    /\ LegacyLoaded
    /\ FileText(K_LOCAL_IPV4) = <<49, 48, 46, 48, 46, 48, 46, 49>>
    /\ FileText(K_REPLY_ADDR4) = <<49, 48, 46, 48, 46, 48, 46, 51>>
    /\ config["dns.reply.host.v4"] = <<10, 0, 0, 1>>
    /\ config["dns.reply.blocking.v4"] = INADDR_ANY
    /\ warnings # {}

\* C6: in a legacy load, a valid REPLY_ADDR6 with neither LOCAL_IPV6 nor
\* BLOCK_IPV6 set is both the host-reply and the blocking-reply IPv6 address
\* and both IPv6 overwrite flags are true; with LOCAL_IPV6 or BLOCK_IPV6 set
\* it is ignored and a warning is logged.
C6_ReplyAddr6Handling ==
    (LegacyLoaded /\ ValidV6(FileText(K_REPLY_ADDR6))) =>
        LET local == FileText(K_LOCAL_IPV6)
            block == FileText(K_BLOCK_IPV6)
            reply == inet_pton6(FileText(K_REPLY_ADDR6)).addr
        IN  /\ (~ValidV6(local) /\ ~ValidV6(block)) =>
                 /\ config["dns.reply.host.v6"] = reply
                 /\ config["dns.reply.blocking.v6"] = reply
                 /\ config["dns.reply.host.overwrite_v6"]
                 /\ config["dns.reply.blocking.overwrite_v6"]
            /\ (ValidV6(local) \/ ValidV6(block)) =>
                 "Ignoring REPLY_ADDR6 as LOCAL_IPV6 or BLOCK_IPV6 has been specified."
                     \in warnings

\* the four reply-address items: the overwrite flag, the address, the
\* all-zero address, the newer key that sets the item, the address family
ReplyItems ==
    {[flag |-> "dns.reply.host.overwrite_v4", item |-> "dns.reply.host.v4",
      zero |-> INADDR_ANY, key |-> K_LOCAL_IPV4, v6 |-> FALSE],
     [flag |-> "dns.reply.blocking.overwrite_v4", item |-> "dns.reply.blocking.v4",
      zero |-> INADDR_ANY, key |-> K_BLOCK_IPV4, v6 |-> FALSE],
     [flag |-> "dns.reply.host.overwrite_v6", item |-> "dns.reply.host.v6",
      zero |-> in6addr_any, key |-> K_LOCAL_IPV6, v6 |-> TRUE],
     [flag |-> "dns.reply.blocking.overwrite_v6", item |-> "dns.reply.blocking.v6",
      zero |-> in6addr_any, key |-> K_BLOCK_IPV6, v6 |-> TRUE]}

\* the file holds the item's LOCAL_ or BLOCK_ key with an address that parses
KeyParsed(r) ==
    IF r.v6 THEN ValidV6(FileText(r.key)) ELSE ValidV4(FileText(r.key))

\* the file holds the deprecated key of the family with a value the reader
\* accepts (a dotted quad, for either family), and neither newer key of the
\* family set its flag
ReplyAddrApplied(v6) ==
    IF v6
    THEN /\ ValidV4(FileText(K_REPLY_ADDR6))
         /\ ~ValidV6(FileText(K_LOCAL_IPV6))
         /\ ~ValidV6(FileText(K_BLOCK_IPV6))
    ELSE /\ ValidV4(FileText(K_REPLY_ADDR4))
         /\ ~ValidV4(FileText(K_LOCAL_IPV4))
         /\ ~ValidV4(FileText(K_BLOCK_IPV4))

\* C21, the flag that is false: the address is all-zero
C21_UnsetAddressZero ==
    LegacyLoaded =>
        \A r \in ReplyItems : ~config[r.flag] => config[r.item] = r.zero

\* C21, the flag that is true: the file set it
C21_FlagHasCause ==
    LegacyLoaded =>
        \A r \in ReplyItems : config[r.flag] => KeyParsed(r) \/ ReplyAddrApplied(r.v6)

\* C21: after every completed readFTLlegacy, for each of the four
\* reply-address items, an overwrite flag that is false implies that the
\* address is all-zero, and a flag that is true implies that the file held a
\* successfully parsed LOCAL_/BLOCK_ key for the item or an applied REPLY_ADDR
\* key, whatever the registry held before the load.
C21_ReplyAddressesConsistent ==
    C21_UnsetAddressZero /\ C21_FlagHasCause

-----------------------------------------------------------------------------
(* Properties of the loads *)

\* neither a structured file nor a legacy file can be opened
NoFiles == ~toml_file.exists /\ ~conf_file.exists

\* C7: with neither file to open, readFTLtoml returns false and leaves every
\* item at its default whatever the registry held, and the readFTLlegacy that
\* follows it returns NULL with every item still at its default.
C7_NothingToLoad ==
    [][/\ (last'.op = "readFTLtoml" /\ NoFiles') =>
              (last'.ret = "false" /\ config' = initConfig)
       /\ (last.op = "readFTLtoml" /\ last'.op = "readFTLlegacy" /\ NoFiles') =>
              (last'.ret = "NULL" /\ config' = initConfig)]_vars

\* C7 happens: the registry held something else than the defaults, there are
\* no files, and readFTLtoml has returned false
C7_Witness ==
    /\ last.op = "readFTLtoml"
    /\ last.ret = "false"
    /\ NoFiles
    /\ pre # initConfig
    /\ config = initConfig

\* a table on the way to the item's leaf is absent from the document
TableMissing(k) == LeafTable(toml_file.doc, k) = TNULL

\* C10: readFTLtoml on a document that parses: every item with an absent
\* intermediate table keeps its value (the default the call started from),
\* no leaf is looked up in a missing table, and the call returns true.
C10_MissingTableSkipped ==
    (last.op = "readFTLtoml" /\ toml_file.exists /\ toml_file.parses) =>
        /\ last.ret = "true"
        /\ \A k \in ItemSet : TableMissing(k) => config[k] = initConfig[k]

-----------------------------------------------------------------------------
(* Properties of the legacy keys' defaults *)

\* the text is a decimal numeral of a value in lo..hi (0 <= lo <= hi < 65536)
DecimalWithin(text, lo, hi) ==
    /\ IsDecimal(text)
    /\ text[1] # 45
    /\ ~MagAbove(DecimalMag(text), hi)
    /\ DecimalMag(text).l[1] >= lo

\* the text is a decimal numeral of an unsigned int
DecimalUnsigned(text) ==
    /\ IsDecimal(text)
    /\ text[1] # 45
    /\ ~DecimalMag(text).ovf /\ DecimalMag(text).l[3] = 0 /\ DecimalMag(text).l[4] = 0

\* the text is one of the names (without regard to letter case)
NameAmong(text, names) ==
    text # NULL /\ \E n \in names : DifferOnlyInCase(text, n)

\* the item holds what it held before the last operation
Kept(k) == config[k] = pre[k]

\* the legacy file was loaded into a registry that held the defaults
LoadedFromDefaults == LegacyLoaded /\ pre = initConfig

\* C14, the numeric keys
C14_Numbers ==
    /\ ~IsDecimal(FileText(K_MAXDBDAYS)) => Kept("database.maxDBdays")
    /\ ~DecimalWithin(FileText(K_MAXNETAGE), 1, 8760) => Kept("database.network.expire")
    /\ ~DecimalWithin(FileText(K_PRIVACYLEVEL), 0, 4) => Kept("misc.privacylevel")
    /\ ~DecimalUnsigned(FileText(K_BLOCK_TTL)) => Kept("dns.blockTTL")
    /\ ~DecimalWithin(FileText(K_CHECK_SHMEM), 0, 100) => Kept("misc.check.shmem")
    /\ ~DecimalWithin(FileText(K_CHECK_DISK), 0, 100) => Kept("misc.check.disk")

\* C14, the keys that hold a name or a path
C14_Names ==
    /\ ~NameAmong(FileText(K_BLOCKINGMODE), {n.name : n \in ModeNames})
           => Kept("dns.blockingmode")
    /\ ~NameAmong(FileText(K_REFRESH_HOSTNAMES), {S_ALL, S_NONE, S_UNKNOWN})
           => Kept("resolver.refreshNames")
    /\ FileText(K_DBFILE) \in {NULL, <<>>} => Kept("files.database")

\* C14, the address keys (the deprecated REPLY_ADDR keys not being set)
C14_Addresses ==
    /\ (~ValidV4(FileText(K_LOCAL_IPV4)) /\ ~ValidV4(FileText(K_REPLY_ADDR4))) =>
           Kept("dns.reply.host.v4") /\ Kept("dns.reply.host.overwrite_v4")
    /\ (~ValidV4(FileText(K_BLOCK_IPV4)) /\ ~ValidV4(FileText(K_REPLY_ADDR4))) =>
           Kept("dns.reply.blocking.v4") /\ Kept("dns.reply.blocking.overwrite_v4")
    /\ (~ValidV6(FileText(K_LOCAL_IPV6)) /\ ~ValidV4(FileText(K_REPLY_ADDR6))) =>
           Kept("dns.reply.host.v6") /\ Kept("dns.reply.host.overwrite_v6")
    /\ (~ValidV6(FileText(K_BLOCK_IPV6)) /\ ~ValidV4(FileText(K_REPLY_ADDR6))) =>
           Kept("dns.reply.blocking.v6") /\ Kept("dns.reply.blocking.overwrite_v6")

\* C14: in a legacy load, every recognised key that is absent from the file
\* or whose value is malformed or out of range leaves its item equal to the
\* value it held before the load (the default): the numeric keys, the keys
\* REFRESH_HOSTNAMES, BLOCKINGMODE and DBFILE, and the LOCAL_ and BLOCK_
\* address keys.
C14_UnusableKeyKeepsDefault ==
    LoadedFromDefaults => C14_Numbers /\ C14_Names /\ C14_Addresses

\* C18: after a legacy load, CHECK_DISK=N and CHECK_SHMEM=N with 0 <= N <= 100
\* leave the item holding the integer N; with the key absent or N outside
\* 0..100 the item holds 90.
C18_PercentageStored ==
    LegacyLoaded =>
        \A c \in {[key |-> K_CHECK_DISK, item |-> "misc.check.disk"],
                  [key |-> K_CHECK_SHMEM, item |-> "misc.check.shmem"]} :
            /\ FileText(c.key) = NULL => config[c.item] = UInt(90)
            /\ \A N \in -1..101 :
                   FileText(c.key) = Numeral(N) =>
                       config[c.item] = UInt(IF N \in 0..100 THEN N ELSE 90)

-----------------------------------------------------------------------------
(* Properties of the structured reader *)

\* the document with the entry at the path replaced by the raw value (the
\* document itself when a table of the path is missing)
RECURSIVE ReplaceEntry(_, _, _, _)
ReplaceEntry(tab, path, j, raw) ==
    IF j = Len(path)
    THEN [tab EXCEPT !.kv = (path[j] :> Val(raw)) @@ tab.kv]
    ELSE IF toml_table_in(tab, path[j]) = TNULL THEN tab
    ELSE [tab EXCEPT !.kv[path[j]].t = ReplaceEntry(@, path, j + 1, raw)]

\* values that are malformed for an item: a string that is no enum name and
\* no address where a number or a boolean is due, a negative number where a
\* string or an unsigned number is due, a number that fits no item
BadRaws ==
    {Q(<<98, 111, 103, 117, 115>>), <<45, 49>>,
     <<57, 57, 57, 57, 57, 57, 57, 57, 57, 57, 57, 57>>}

\* what readFTLtoml makes of a parsed document: [cfg, warn, fault]
ReadDocument(conf) ==
    ReadItemsFrom(ReadDebugConfig([cfg |-> initConfig, warn |-> {}, fault |-> FALSE],
                                  conf),
                  conf, 1)

\* C15: one bad field never affects another: for the document readFTLtoml has
\* read and any two distinct items X and Y, replacing X's entry by a malformed
\* one does not change the value Y holds after readFTLtoml, and readFTLtoml
\* still processes all items and returns true.
C15_OneBadFieldIsolated ==
    (last.op = "readFTLtoml" /\ parseTOML # TNULL) =>
        /\ last.ret = "true"
        /\ \A X \in ItemSet : \A raw \in BadRaws :
               \E r \in {ReadDocument(ReplaceEntry(parseTOML, PathOf(X), 1, raw))} :
                   /\ ~r.fault
                   /\ \A Y \in ItemSet \ {X} : r.cfg[Y] = config[Y]

-----------------------------------------------------------------------------
(* Properties of the line scanner *)

\* the line starts with key and '='
HasPrefix(line, key) ==
    Len(line) > Len(key) /\ SubSeq(line, 1, Len(key) + 1) = Append(key, 61)

\* the trimmed remainder of the first line from i on that is no comment line
\* and starts with key and '=' (NULL if there is none)
RECURSIVE PrefixText(_, _, _)
PrefixText(fp, key, i) ==
    IF fp = FNULL \/ i > Len(fp) THEN NULL
    ELSE IF ~IsComment(getline(fp, i)) /\ HasPrefix(getline(fp, i), key)
    THEN trim_whitespace(Tail_from(getline(fp, i), Len(key) + 2))
    ELSE PrefixText(fp, key, i + 1)

\* the keys of the legacy file
LegacyKeys ==
    {K_MAXDBDAYS, K_DBFILE, K_PRIVACYLEVEL, K_BLOCKINGMODE, K_LOCAL_IPV4,
     K_LOCAL_IPV6, K_BLOCK_IPV4, K_BLOCK_IPV6, K_REPLY_ADDR4, K_REPLY_ADDR6}

\* C17: parseFTLconf returns the trimmed remainder of the first non-comment
\* line whose prefix is exactly "key=", and NULL when there is no such line: a
\* "key=" further on in a line is no match and cannot shadow a later line;
\* so the text each lookup of a legacy read gets is that of the first line
\* that starts with the key, and the level getPrivacyLevelLegacy reads is
\* that of the first line that starts with PRIVACYLEVEL=.
C17_KeyMatchesLinePrefix ==
    /\ last.op \in {"readFTLlegacy", "getPrivacyLevelLegacy", "getBlockingModeLegacy"} =>
           \A key \in LegacyKeys : FileText(key) = PrefixText(openFTLconf, key, 1)
    /\ (last.op = "getPrivacyLevelLegacy" /\ pre["misc.privacylevel"] = 0) =>
           \A v \in 1..3 :
               PrefixText(openFTLconf, K_PRIVACYLEVEL, 1) = Numeral(v) =>
                   config["misc.privacylevel"] = v

-----------------------------------------------------------------------------
(* Properties of the privacy level *)

\* the raw value the structured file holds under misc.<key> (NULL if none)
MiscRaw(key) ==
    IF parseTOML # TNULL /\ toml_table_in(parseTOML, "misc") # TNULL
       /\ key \in DOMAIN toml_table_in(parseTOML, "misc").kv
    THEN toml_table_in(parseTOML, "misc").kv[key].raw
    ELSE NULL

\* C16: the privacy level accepts exactly the levels 0..4: readFTLtoml and
\* getPrivacyLevel store every level 0..4 they find in the structured file; a
\* legacy read that starts from level 0 stores every level 1..4 of the legacy
\* file; a level outside 0..4 leaves the item as it was.
C16_PrivacyLevelsZeroToFour ==
    \A v \in -1..5 :
        /\ (last.op = "readFTLtoml" /\ last.ret = "true"
            /\ MiscRaw("privacylevel") = Numeral(v)) =>
               config["misc.privacylevel"] =
                   IF v \in 0..4 THEN v ELSE initConfig["misc.privacylevel"]
        /\ (last.op = "getPrivacyLevel" /\ MiscRaw("privacyLevel") = Numeral(v)) =>
               config["misc.privacylevel"] =
                   IF v \in 0..4 THEN v ELSE pre["misc.privacylevel"]
        /\ (last.op \in {"getPrivacyLevelLegacy", "readFTLlegacy"}
            /\ pre["misc.privacylevel"] = 0
            /\ FileText(K_PRIVACYLEVEL) = Numeral(v)) =>
               config["misc.privacylevel"] = IF v \in 1..4 THEN v ELSE 0

-----------------------------------------------------------------------------
(* The string writer on its own: printTOMLstring is called on a string and   *)
(* the bytes it wrote are kept.                                              *)

\* the bytes the strings are made of: 'a', 'z', '"', '\', backspace, tab,
\* newline, form feed, carriage return, 0x01, DEL, 0xc3
StringBytes == {97, 122, 34, 92, 8, 9, 10, 12, 13, 1, 127, 195}

\* a"b<newline>c
S_example == <<97, 34, 98, 10, 99>>

StringInputs == SeqsUpTo(StringBytes, MaxStrLen) \cup {S_example, NULL}

\* everything but io is at rest
AtRest ==
    /\ config = initConfig
    /\ conf_file = NoConfFile
    /\ toml_file = NoTomlFile
    /\ last = [op |-> "init", ret |-> "void"]
    /\ pre = initConfig
    /\ warnings = {}

InitEsc ==
    /\ AtRest
    /\ \E s \in StringInputs : io = [kind |-> "string", s |-> s]

DoPrintTOMLstring ==
    /\ io.kind = "string"
    /\ io' = [kind |-> "printed", s |-> io.s, out |-> printTOMLstring(io.s)]
    /\ UNCHANGED <<config, conf_file, toml_file, last, pre, warnings>>

NextEsc == DoPrintTOMLstring

SpecEsc == InitEsc /\ [][NextEsc]_vars

\* the general escaper, byte by byte: the letter of a named escape
EscapeLetter(b) ==
    IF b = 8 THEN 98 ELSE IF b = 9 THEN 116 ELSE IF b = 10 THEN 110
    ELSE IF b = 12 THEN 102 ELSE IF b = 13 THEN 114 ELSE b

\* a hexadecimal digit in lower case
HexChar(d) == IF d < 10 THEN 48 + d ELSE 97 + (d - 10)

\* the general escaper applied to the bytes of s from i on
RECURSIVE GeneralEscape(_, _)
GeneralEscape(s, i) ==
    IF i > Len(s) THEN <<>>
    ELSE (IF s[i] \in (32..126) \ {34, 92} THEN <<s[i]>>
          ELSE IF s[i] \in {8, 9, 10, 12, 13, 34, 92} THEN <<92, EscapeLetter(s[i])>>
          ELSE <<92, 48, 120, HexChar(s[i] \div 16), HexChar(s[i] % 16)>>)
         \o GeneralEscape(s, i + 1)

\* printable ASCII without quote or backslash
PlainASCII(s) == \A i \in 1..Len(s) : s[i] \in (32..126) \ {34, 92}

\* C9: what printTOMLstring writes for a string is the general escaper's
\* output between double quotes (printable bytes other than quote and
\* backslash as they are, \b \t \n \f \r \" \\ for the seven named bytes,
\* \0xHH for every other byte); so a string of printable ASCII without quote
\* or backslash is written unchanged between the quotes, and a"b<newline>c is
\* written as "a\"b\nc".
C9_PrintIsGeneralEscaper ==
    (io.kind = "printed" /\ io.s # NULL) =>
        /\ io.out = <<34>> \o GeneralEscape(io.s, 1) \o <<34>>
        /\ PlainASCII(io.s) => io.out = <<34>> \o io.s \o <<34>>
        /\ io.s = S_example => io.out = <<34, 97, 92, 34, 98, 92, 110, 99, 34>>

\* C9 happens: a"b<newline>c has been printed, by the slow path
C9_Witness ==
    /\ io.kind = "printed"
    /\ io.s = S_example
    /\ io.out = <<34, 97, 92, 34, 98, 92, 110, 99, 34>>
    /\ io.out # <<34>> \o io.s \o <<34>>

-----------------------------------------------------------------------------
(* Write, then read: an item is written with writeTOMLvalue, the text is     *)
(* parsed as the value of a key, and readTOMLvalue reads that key into an    *)
(* item of the same type that holds its default.                             *)

ItemTypes ==
    {"CONF_BOOL", "CONF_INT", "CONF_UINT", "CONF_LONG", "CONF_ULONG", "CONF_STRING",
     "CONF_ENUM_PTR_TYPE", "CONF_ENUM_BUSY_TYPE", "CONF_ENUM_BLOCKING_MODE",
     "CONF_ENUM_REFRESH_HOSTNAMES", "CONF_ENUM_PRIVACY_LEVEL",
     "CONF_STRUCT_IN_ADDR", "CONF_STRUCT_IN6_ADDR"}

\* the bytes of the strings an item holds: 'a', '"', '\', newline, 0x01, 0xc3
ItemStringBytes == {97, 34, 92, 10, 1, 195}

\* current values of an item of type t
ValuesOf(t) ==
    CASE t = "CONF_BOOL" -> BOOLEAN
      [] t = "CONF_INT" -> {0, 1, -1, 365, INT_MAX, (0 - INT_MAX) - 1}
      [] t = "CONF_UINT" ->
            {Num(FALSE, <<0, 0, 0, 0>>), Num(FALSE, <<60, 0, 0, 0>>),
             Num(FALSE, <<65535, 65535, 0, 0>>)}
      [] t = "CONF_LONG" ->
            {Num(FALSE, <<0, 0, 0, 0>>), Num(TRUE, <<1, 0, 0, 0>>),
             Num(FALSE, <<65535, 65535, 65535, 32767>>),
             Num(TRUE, <<0, 0, 0, 32768>>)}
      [] t = "CONF_ULONG" ->
            {Num(FALSE, <<0, 0, 0, 0>>), Num(FALSE, <<65535, 65535, 65535, 32767>>),
             Num(FALSE, <<0, 0, 0, 32768>>), Num(FALSE, <<65535, 65535, 65535, 65535>>)}
      [] t = "CONF_STRING" -> SeqsUpTo(ItemStringBytes, MaxStrLen)
      [] t = "CONF_ENUM_PRIVACY_LEVEL" -> PRIVACY_SHOW_ALL..PRIVACY_MAXIMUM
      [] t = "CONF_STRUCT_IN_ADDR" ->
            {INADDR_ANY, <<10, 0, 0, 1>>, <<192, 168, 1, 1>>, <<255, 255, 255, 255>>}
      [] t = "CONF_STRUCT_IN6_ADDR" ->
            {in6addr_any, <<0, 0, 0, 0, 0, 0, 0, 1>>, <<64768, 0, 0, 0, 0, 0, 0, 3>>,
             <<0, 0, 0, 0, 0, 65535, 2560, 3>>, <<0, 0, 0, 0, 0, 0, 2560, 3>>,
             <<1, 2, 3, 4, 5, 6, 7, 8>>, <<1, 0, 0, 2, 0, 0, 0, 3>>,
             <<65152, 0, 0, 0, 0, 0, 0, 0>>}
      [] OTHER -> 0..(Len(EnumNames(t)) - 1)

\* the defaults the item read into may have
DefaultsOf(t) ==
    CASE t = "CONF_BOOL" -> BOOLEAN
      [] t = "CONF_INT" -> {7}
      [] t \in {"CONF_UINT", "CONF_LONG", "CONF_ULONG"} -> {Num(FALSE, <<7, 0, 0, 0>>)}
      [] t = "CONF_STRING" -> {<<100>>}
      [] t = "CONF_ENUM_PRIVACY_LEVEL" -> {PRIVACY_SHOW_ALL, PRIVACY_MAXIMUM}
      [] t = "CONF_STRUCT_IN_ADDR" -> {<<127, 0, 0, 1>>}
      [] t = "CONF_STRUCT_IN6_ADDR" -> {<<65152, 0, 0, 0, 0, 0, 0, 9>>}
      [] OTHER -> {0, 1}

InitRT ==
    /\ AtRest
    /\ \E t \in ItemTypes : \E v \in ValuesOf(t), d \in DefaultsOf(t) :
          io = [kind |-> "item", t |-> t, v |-> v, d |-> d]

\* writeTOMLvalue(fp, t, &v) after the key and " = "
DoWriteTOMLvalue ==
    /\ io.kind = "item"
    /\ io' = [kind |-> "written", t |-> io.t, v |-> io.v, d |-> io.d,
              text |-> writeTOMLvalue(io.t, io.v)]
    /\ UNCHANGED <<config, conf_file, toml_file, last, pre, warnings>>

\* toml_parse_file() on the line `key = <text>`: a table with the raw value,
\* or a syntax error
DoParse ==
    /\ io.kind = "written"
    /\ io' = IF scan_string(io.text)
             THEN [kind |-> "parsed", t |-> io.t, v |-> io.v, d |-> io.d,
                   toml |-> Tab("key" :> Val(io.text))]
             ELSE [kind |-> "rejected", t |-> io.t, v |-> io.v, d |-> io.d,
                   text |-> io.text]
    /\ UNCHANGED <<config, conf_file, toml_file, last, pre, warnings>>

\* readTOMLvalue(&item, "key", toml), item.v = item.d
DoReadTOMLvalue ==
    /\ io.kind = "parsed"
    /\ io' = [kind |-> "read", t |-> io.t, v |-> io.v, d |-> io.d,
              back |-> readTOMLvalue(io.t, io.d, "key", io.toml).v]
    /\ UNCHANGED <<config, conf_file, toml_file, last, pre, warnings>>

NextRT ==
    \/ DoWriteTOMLvalue
    \/ DoParse
    \/ DoReadTOMLvalue

SpecRT == InitRT /\ [][NextRT]_vars

\* C8: write-then-read round trip: for every item type and every current
\* value, the text writeTOMLvalue emits is read back by readTOMLvalue, into
\* an item at its default, as a value equal to the source value.
C8_WriteReadRoundTrip ==
    /\ io.kind # "rejected"
    /\ io.kind = "read" => io.back = io.v

-----------------------------------------------------------------------------
(* The numeric items on their own: a document holds an integer under a key   *)
(* and readTOMLvalue reads that key into an Int32, UInt32, Int64 or UInt64   *)
(* item that holds some value.                                               *)

NumericTypes == {"CONF_INT", "CONF_UINT", "CONF_LONG", "CONF_ULONG"}

\* the integers of the documents: 0, 7, 2^31 - 1, 2^31, 2^32 - 1, 2^32,
\* 2^32 + 5, 2^63 - 1, 2^63, 2^64 - 1, and -1, -2^31, -2^31 - 1, -2^63
DocIntegers ==
    {Num(FALSE, <<0, 0, 0, 0>>), Num(FALSE, <<7, 0, 0, 0>>),
     Num(FALSE, <<65535, 32767, 0, 0>>), Num(FALSE, <<0, 32768, 0, 0>>),
     Num(FALSE, <<65535, 65535, 0, 0>>), Num(FALSE, <<0, 0, 1, 0>>),
     Num(FALSE, <<5, 0, 1, 0>>), Num(FALSE, <<65535, 65535, 65535, 32767>>),
     Num(FALSE, <<0, 0, 0, 32768>>), Num(FALSE, <<65535, 65535, 65535, 65535>>),
     Num(TRUE, <<1, 0, 0, 0>>), Num(TRUE, <<0, 32768, 0, 0>>),
     Num(TRUE, <<1, 32768, 0, 0>>), Num(TRUE, <<0, 0, 0, 32768>>)}

\* the values the item may hold before the read
HeldBefore(t) ==
    IF t = "CONF_INT" THEN {7, -3}
    ELSE {Num(FALSE, <<7, 0, 0, 0>>), Num(FALSE, <<0, 0, 0, 1>>)}

InitNum ==
    /\ AtRest
    /\ \E t \in NumericTypes : \E n \in DocIntegers, d \in HeldBefore(t) :
          io = [kind |-> "integer", t |-> t, n |-> n, d |-> d,
                toml |-> Tab("key" :> Val(FormatNum(n)))]

\* readTOMLvalue(&item, "key", toml), the item holding d
DoReadInteger ==
    /\ io.kind = "integer"
    /\ io' = [kind |-> "stored", t |-> io.t, n |-> io.n, d |-> io.d,
              v |-> readTOMLvalue(io.t, io.d, "key", io.toml).v]
    /\ UNCHANGED <<config, conf_file, toml_file, last, pre, warnings>>

NextNum == DoReadInteger

SpecNum == InitNum /\ [][NextNum]_vars

\* is the integer within the range of the item's width and signedness
InRangeOf(t, n) ==
    CASE t = "CONF_INT" ->
            /\ n.l[3] = 0 /\ n.l[4] = 0
            /\ n.l[2] < 32768 \/ (n.neg /\ n.l[2] = 32768 /\ n.l[1] = 0)
      [] t = "CONF_UINT" -> ~n.neg /\ n.l[3] = 0 /\ n.l[4] = 0
      [] t = "CONF_LONG" ->
            n.l[4] < 32768
            \/ (n.neg /\ n.l[4] = 32768 /\ n.l[3] = 0 /\ n.l[2] = 0 /\ n.l[1] = 0)
      [] t = "CONF_ULONG" -> ~n.neg

\* the integer as an item of the type holds it
HeldAs(t, n) ==
    IF t = "CONF_INT"
    THEN (IF n.neg THEN (0 - n.l[2]) * 65536 - n.l[1] ELSE n.l[2] * 65536 + n.l[1])
    ELSE n

\* C11: the structured reader never stores a truncated or wrapped number: an
\* Int32, UInt32, Int64 or UInt64 item read from a document integer holds
\* exactly that integer when it is within the range of the item's width and
\* signedness, and keeps the value it held otherwise.
C11_NoTruncatedNumber ==
    io.kind = "stored" =>
        io.v = IF InRangeOf(io.t, io.n) THEN HeldAs(io.t, io.n) ELSE io.d

-----------------------------------------------------------------------------
(* The file handles and the line buffer.  A routine of the legacy reader is  *)
(* called with fp == NULL or with a handle its caller has opened; r is what  *)
(* the process holds: the open handles, the line buffer (conflinebuffer,     *)
(* size), and for the running call the handles it opened and whether it has  *)
(* looked a key up.                                                          *)

\* the handles: the caller's, the one a legacy routine opens, the one
\* parseTOML opens
Handles == {"caller", "conf", "toml"}

\* a line of the legacy file
\* "LOGFILE=/x.log"
Lines_log == {<<76, 79, 71, 70, 73, 76, 69, 61, 47, 120, 46, 108, 111, 103>>}

\* Does getline() allocate the line buffer before it finds the end of the
\* file: the C library's choice.
GetlineAllocates == BOOLEAN

\* fopen() by the running call
fopen(r, h) == [r EXCEPT !.open = @ \cup {h}, !.opened = @ \cup {h}]

\* fclose(fp)
fclose(r, h) == [r EXCEPT !.open = @ \ {h}]

\* parseFTLconf(fp, key), fp not NULL: getline() fills the line buffer
lookup(r, eager) ==
    [r EXCEPT !.buffer = @ \/ eager \/ openFTLconf # <<>>,
              !.size = IF r.buffer \/ eager \/ openFTLconf # <<>> THEN 120 ELSE 0,
              !.looked = TRUE]

\* releaseConfigMemory()
releaseConfigMemory(r) ==
    IF r.buffer THEN [r EXCEPT !.buffer = FALSE, !.size = 0] ELSE r

\* the handle a routine works on: its argument, or the file it opens itself
\* ("none" when there is no file to open)
HandleOf(fp) ==
    IF fp # "NULL" THEN fp ELSE IF openFTLconf = FNULL THEN "none" ELSE "conf"

\* r after the routine has opened the file, if it had to
Opened(r, fp) == IF fp = "NULL" /\ openFTLconf # FNULL THEN fopen(r, "conf") ELSE r

\* getLogFilePathLegacy(fp)
getLogFilePathLegacy(r, fp, eager) ==
    IF HandleOf(fp) = "none" THEN r
    ELSE fclose(lookup(Opened(r, fp), eager), HandleOf(fp))

\* getPrivacyLevelLegacy(fp) and getBlockingModeLegacy(fp): one lookup, the
\* buffer is released, the file is closed if the routine opened it
OneKeyLegacy(r, fp, eager) ==
    IF HandleOf(fp) = "none" THEN r
    ELSE LetIn(releaseConfigMemory(lookup(Opened(r, fp), eager)), LAMBDA r1 :
         IF fp = "NULL" THEN fclose(r1, "conf") ELSE r1)

\* readDebugingSettingsLegacy(fp): the lookups of the DEBUG_ keys; the file
\* is closed and the buffer released only if the routine opened the file
readDebugingSettingsLegacy(r, fp, eager) ==
    IF HandleOf(fp) = "none" THEN r
    ELSE LetIn(lookup(Opened(r, fp), eager), LAMBDA r1 :
         IF fp = "NULL" THEN releaseConfigMemory(fclose(r1, "conf")) ELSE r1)

\* readFTLlegacy(): the file is opened, the keys are looked up (the privacy
\* level, the blocking mode and the debug settings by their own routines,
\* which get the handle), the buffer is released and the file closed
readFTLlegacy_files(r, eager) ==
    IF openFTLconf = FNULL THEN r
    ELSE LetIn(lookup(fopen(r, "conf"), eager), LAMBDA r1 :
         LetIn(OneKeyLegacy(r1, "conf", eager), LAMBDA r2 :
         LetIn(OneKeyLegacy(r2, "conf", eager), LAMBDA r3 :
         LetIn(lookup(r3, eager), LAMBDA r4 :
         LetIn(readDebugingSettingsLegacy(r4, "conf", eager), LAMBDA r5 :
               fclose(releaseConfigMemory(r5), "conf"))))))

\* parseTOML(): the file is opened, parsed and closed
parseTOML_files(r) ==
    IF toml_file.exists THEN fclose(fopen(r, "toml"), "toml") ELSE r

InitRes ==
    /\ config = initConfig
    /\ conf_file \in ConfFiles(Lines_log)
    /\ toml_file \in {NoTomlFile, BadTomlFile, TomlFile(NoLeaves, {})}
    /\ last = [op |-> "init", ret |-> "void"]
    /\ pre = initConfig
    /\ warnings = {}
    /\ io = [kind |-> "handles", op |-> "init", fp |-> "NULL", open |-> {},
             opened |-> {}, looked |-> FALSE, buffer |-> FALSE, size |-> 0]

\* a call begins: nothing opened, nothing looked up yet
Enter(op, fp) == [io EXCEPT !.op = op, !.fp = fp, !.opened = {}, !.looked = FALSE]

\* the arguments a caller may pass: NULL, or its own handle while it is open
FileArgs == {"NULL"} \cup (io.open \cap {"caller"})

\* the caller opens the legacy file to hand it on
DoCallerOpen ==
    /\ openFTLconf # FNULL
    /\ "caller" \notin io.open
    /\ io' = [Enter("fopen", "NULL") EXCEPT !.open = @ \cup {"caller"}]
    /\ UNCHANGED <<config, conf_file, toml_file, last, pre, warnings>>

\* the caller closes its handle, if it is still open
DoCallerClose ==
    /\ "caller" \in io.open
    /\ io' = fclose(Enter("fclose", "NULL"), "caller")
    /\ UNCHANGED <<config, conf_file, toml_file, last, pre, warnings>>

DoGetLogFilePathLegacy ==
    /\ \E fp \in FileArgs : \E eager \in GetlineAllocates :
          io' = getLogFilePathLegacy(Enter("getLogFilePathLegacy", fp), fp, eager)
    /\ UNCHANGED <<config, conf_file, toml_file, last, pre, warnings>>

DoGetPrivacyLevelLegacy ==
    /\ \E fp \in FileArgs : \E eager \in GetlineAllocates :
          io' = OneKeyLegacy(Enter("getPrivacyLevelLegacy", fp), fp, eager)
    /\ UNCHANGED <<config, conf_file, toml_file, last, pre, warnings>>

DoGetBlockingModeLegacy ==
    /\ \E fp \in FileArgs : \E eager \in GetlineAllocates :
          io' = OneKeyLegacy(Enter("getBlockingModeLegacy", fp), fp, eager)
    /\ UNCHANGED <<config, conf_file, toml_file, last, pre, warnings>>

DoReadDebugingSettingsLegacy ==
    /\ \E fp \in FileArgs : \E eager \in GetlineAllocates :
          io' = readDebugingSettingsLegacy(Enter("readDebugingSettingsLegacy", fp),
                                           fp, eager)
    /\ UNCHANGED <<config, conf_file, toml_file, last, pre, warnings>>

DoReadFTLlegacy ==
    /\ \E eager \in GetlineAllocates :
          io' = readFTLlegacy_files(Enter("readFTLlegacy", "NULL"), eager)
    /\ UNCHANGED <<config, conf_file, toml_file, last, pre, warnings>>

DoParseTOML ==
    /\ io' = parseTOML_files(Enter("parseTOML", "NULL"))
    /\ UNCHANGED <<config, conf_file, toml_file, last, pre, warnings>>

NextRes ==
    \/ DoCallerOpen
    \/ DoCallerClose
    \/ DoGetLogFilePathLegacy
    \/ DoGetPrivacyLevelLegacy
    \/ DoGetBlockingModeLegacy
    \/ DoReadDebugingSettingsLegacy
    \/ DoReadFTLlegacy
    \/ DoParseTOML

SpecRes == InitRes /\ [][NextRes]_vars

\* the routines that open files
FileRoutines ==
    {"readFTLlegacy", "getLogFilePathLegacy", "getPrivacyLevelLegacy",
     "getBlockingModeLegacy", "readDebugingSettingsLegacy", "parseTOML"}

\* C13: file handles are scoped to the call that opened them: when
\* readFTLlegacy, getLogFilePathLegacy, getPrivacyLevelLegacy,
\* getBlockingModeLegacy, readDebugingSettingsLegacy or parseTOML has
\* returned, every handle the call opened is closed, and a handle the caller
\* passed in is still open.
C13_HandlesScopedToCall ==
    io.op \in FileRoutines =>
        /\ io.opened \cap io.open = {}
        /\ io.fp # "NULL" => io.fp \in io.open

\* C19: the line buffer does not outlive a top-level legacy operation: on
\* return from readFTLlegacy, from getLogFilePathLegacy, and from a call with
\* fp == NULL of getPrivacyLevelLegacy, getBlockingModeLegacy or
\* readDebugingSettingsLegacy that looked a key up, conflinebuffer is NULL
\* and size is 0.
C19_LineBufferReleased ==
    (/\ io.looked
     /\ \/ io.op \in {"readFTLlegacy", "getLogFilePathLegacy"}
        \/ /\ io.op \in {"getPrivacyLevelLegacy", "getBlockingModeLegacy",
                         "readDebugingSettingsLegacy"}
           /\ io.fp = "NULL") =>
        ~io.buffer /\ io.size = 0

-----------------------------------------------------------------------------
(* Threads.  Each thread looks its own key up with parseFTLconf(), reads the *)
(* value it got, and releases the line buffer as the callers of the legacy   *)
(* reader do.  The line buffer and the lock are shared; a step is one of the *)
(* thread's statements that touch them.                                      *)

Threads == {1, 2}

\* lookups a thread makes
MaxLookups == 2

\* the key of each thread
KeyOf(t) == IF t = 1 THEN K_PRIVACYLEVEL ELSE K_BLOCKINGMODE

\* "PRIVACYLEVEL=3"
L_PRIVACYLEVEL == <<80, 82, 73, 86, 65, 67, 89, 76, 69, 86, 69, 76, 61, 51>>

\* "BLOCKINGMODE=NULL"
L_BLOCKINGMODE == <<66, 76, 79, 67, 75, 73, 78, 71, 77, 79, 68, 69, 61, 78, 85, 76, 76>>

\* the legacy files the threads read: none, one with both keys in either
\* order, one with the first thread's key only
Files_threads ==
    {NoConfFile,
     [exists |-> TRUE, lines |-> <<L_PRIVACYLEVEL, L_BLOCKINGMODE>>],
     [exists |-> TRUE, lines |-> <<L_BLOCKINGMODE, L_PRIVACYLEVEL>>],
     [exists |-> TRUE, lines |-> <<L_PRIVACYLEVEL>>]}

\* What a read through a pointer into freed memory gives: the bytes that
\* were there, or others.
FreedBytes(was) == {was, <<>>}

InitMT ==
    /\ config = initConfig
    /\ conf_file \in Files_threads
    /\ toml_file = NoTomlFile
    /\ last = [op |-> "init", ret |-> "void"]
    /\ pre = initConfig
    /\ warnings = {}
    /\ io = [kind |-> "threads",
             pc |-> [t \in Threads |-> "idle"],
             lock |-> 0,
             conflinebuffer |-> NULL,
             line |-> [t \in Threads |-> 0],
             value |-> [t \in Threads |-> 0],
             got |-> [t \in Threads |-> NULL],
             seen |-> [t \in Threads |-> NULL],
             lookups |-> [t \in Threads |-> 0],
             locked |-> [t \in Threads |-> 0],
             blocked |-> [t \in Threads |-> FALSE]]

\* the thread's statement changes io and nothing else
Step(next) ==
    /\ io' = next
    /\ UNCHANGED <<config, conf_file, toml_file, last, pre, warnings>>

\* parseFTLconf(fp, key) is entered: with fp == NULL, or when calloc() fails,
\* it returns NULL at once; else it goes for the lock
Call(t) ==
    /\ io.pc[t] = "idle"
    /\ io.lookups[t] < MaxLookups
    /\ \E way \in {"fp == NULL", "keystr == NULL", "lock"} :
          Step([io EXCEPT !.pc[t] = IF way = "lock" THEN "pthread_mutex_lock"
                                    ELSE "returned",
                          !.lookups[t] = @ + 1,
                          !.locked[t] = 0,
                          !.blocked[t] = (way = "lock" /\ io.lock # 0),
                          !.got[t] = NULL,
                          !.seen[t] = NULL])

\* pthread_mutex_lock(&lock) returns; fseek(fp, 0L, SEEK_SET)
Lock(t) ==
    /\ io.pc[t] = "pthread_mutex_lock"
    /\ io.lock = 0
    /\ Step([io EXCEPT !.lock = t, !.pc[t] = "getline", !.line[t] = 0,
                       !.locked[t] = @ + 1])

\* a "key found" path that returns without pthread_mutex_unlock(&lock)
unlock_match_forgotten(lock) == lock

\* the lock after pthread_mutex_unlock(&lock) on the "key found" path
unlock_match(lock) == 0

\* one round of the while(getline()) loop: the end of the file or a failed
\* allocation ends the loop; else the line is in the buffer, and the loop
\* goes on (comment line, other key) or the key is found
Getline(t) ==
    /\ io.pc[t] = "getline"
    /\ \/ /\ io.line[t] = Len(openFTLconf)
          /\ Step([io EXCEPT !.pc[t] = "no match"])
       \/ /\ io.line[t] < Len(openFTLconf)
          /\ \E ENOMEM \in BOOLEAN :
             \E text \in {getline(openFTLconf, io.line[t] + 1)} :
                Step(IF ENOMEM THEN [io EXCEPT !.pc[t] = "no match"]
                     ELSE IF LineMatch(text, Append(KeyOf(t), 61))
                     THEN [io EXCEPT !.conflinebuffer = text,
                                     !.line[t] = @ + 1,
                                     !.value[t] = find_equals(text) + 1,
                                     !.pc[t] = "match"]
                     ELSE [io EXCEPT !.conflinebuffer = text, !.line[t] = @ + 1])

\* the text at the thread's value pointer, as the buffer holds it now
ValueAt(t) == trim_whitespace(Tail_from(io.conflinebuffer, io.value[t]))

\* key found: pthread_mutex_unlock(&lock); return value
ReturnValue(t) ==
    /\ io.pc[t] = "match"
    /\ Step([io EXCEPT !.lock = unlock_match(@), !.pc[t] = "reading",
                       !.got[t] = ValueAt(t)])

\* key not found: pthread_mutex_unlock(&lock); return NULL
ReturnNULL(t) ==
    /\ io.pc[t] = "no match"
    /\ Step([io EXCEPT !.lock = 0, !.pc[t] = "returned"])

\* the caller reads the value it got (sscanf, strcasecmp)
ReadValue(t) ==
    /\ io.pc[t] = "reading"
    /\ \E text \in IF io.conflinebuffer = NULL THEN FreedBytes(io.got[t])
                   ELSE {ValueAt(t)} :
          Step([io EXCEPT !.pc[t] = "returned", !.seen[t] = text])

\* the caller is done with the value: releaseConfigMemory()
Release(t) ==
    /\ io.pc[t] = "returned"
    /\ Step([io EXCEPT !.pc[t] = "idle", !.conflinebuffer = NULL])

Thread(t) ==
    \/ Call(t)
    \/ Lock(t)
    \/ Getline(t)
    \/ ReturnValue(t)
    \/ ReturnNULL(t)
    \/ ReadValue(t)
    \/ Release(t)

NextMT == \E t \in Threads : Thread(t)

SpecMT == InitMT /\ [][NextMT]_vars

\* every thread that can take a step is scheduled in the end
SpecMTFair == SpecMT /\ \A t \in Threads : WF_vars(Thread(t))

\* C12: concurrent lookups do not race on the line buffer: whatever the
\* interleaving of two threads that look different keys up, the value a
\* thread got from parseFTLconf is what it reads: the text is not
\* overwritten, moved or freed before the thread has read it.
C12_ValueIntactUntilRead ==
    \A t \in Threads :
        /\ io.pc[t] = "reading" =>
               io.conflinebuffer # NULL /\ ValueAt(t) = io.got[t]
        /\ io.seen[t] # NULL => io.seen[t] = io.got[t]

\* where a thread is inside parseFTLconf
InParseFTLconf == {"pthread_mutex_lock", "getline", "match", "no match"}

\* C20: the lock is balanced in parseFTLconf: a thread that is not inside
\* parseFTLconf does not hold the lock, whichever way the function returned
\* (NULL file pointer, failed allocation of the key string, key found, key
\* not found, failed allocation in getline); the lock is taken at most once
\* in a call; and a thread that waits for the lock gets it in the end.
C20_LockBalanced ==
    /\ [](\A t \in Threads :
             /\ io.pc[t] \notin InParseFTLconf => io.lock # t
             /\ io.locked[t] <= 1)
    /\ \A t \in Threads : (io.pc[t] = "pthread_mutex_lock") ~> (io.lock = t)

\* C20 happens: thread 2 found the lock taken when it called
\* pthread_mutex_lock, and holds it now
C20_Witness ==
    /\ io.blocked[2]
    /\ io.lock = 2
    /\ io.lookups[1] >= 1

=============================================================================
